---- MODULE Spec2Model ----
(***************************************************************************)
(* A model of the Cosmos DB object model of src/azure/cosmos/__init__.py   *)
(* (CosmosClient -> Database -> Container -> Item) on top of the wrapped   *)
(* internal client (client_context), which plays the role of Transport.    *)
(* The Client of src/prototype/client.py and src/mock_two/client.py is     *)
(* modelled for its create_database, and the paged query behind the        *)
(* iterator of query_items for the query executor.                         *)
(*                                                                         *)
(* Encoding of Python values:                                              *)
(*   - a str is a sequence of one-character strings ("" is << >>);         *)
(*   - a session token is the str << >> or << n >>, n its sequence number  *)
(*     (a larger n is a newer token);                                      *)
(*   - Optional[T] is << >> for None and << v >> for the value v;          *)
(*   - a dict is a function whose DOMAIN is the set of keys present;       *)
(*   - an option dict given as initial_headers / access_condition is the   *)
(*     set of its keys ({} is the empty dict).                             *)
(***************************************************************************)
EXTENDS Integers, Sequences, FiniteSets, TLC

VARIABLES
    server,                 \* Transport side: link -> stored resource body
    last_response_headers,  \* client_context.last_response_headers: Optional session token header
    session_token,          \* Container.session_token
    client_session_token,   \* CosmosClient.session_token (set by list_database_properties)
    lastCall,               \* the last facade call: arguments, request handed to Transport, outcome
    created,                \* history: the links a successful create made, not deleted since
    upserts,                \* history: link -> bodies of its latest consecutive successful upserts
    pending_query,          \* the iterable query_items returned, not yet iterated
    linkIn,                 \* link specification: the (database, container, item) ids given
    linkOut,                \* link specification: the links built from linkIn, two calls each
    executor,               \* query specification: the paged query behind a QueryResultIterator
    inflight                \* concurrent specification: the operations of the threads sharing a client

vars == <<server, last_response_headers, session_token, client_session_token,
          lastCall, created, upserts, pending_query, linkIn, linkOut, executor,
          inflight>>

-----------------------------------------------------------------------------
(* Bounds *)

MaxToken == 2        \* session tokens << 1 >> .. << MaxToken >>
MaxSetOptions == 3   \* keyword options given in one call
MaxNum == 1          \* integer option values 0 .. MaxNum
MaxIdLen == 2        \* length of the ids drawn in the link specification
MaxKey == 4          \* items 1 .. MaxKey stored in the queried container
PageSize == 2        \* items in one page of a partition's feed
MaxStops == 2        \* next() calls counted after the iterator is exhausted

-----------------------------------------------------------------------------
(* Python values *)

None == <<>>
Some(v) == <<v>>
Opt(S) == {None} \cup {Some(v) : v \in S}

EmptyDict == [k \in {} |-> TRUE]

Range(s) == {s[i] : i \in 1..Len(s)}

IsPrefix(p, s) == Len(p) <= Len(s) /\ SubSeq(s, 1, Len(p)) = p

-----------------------------------------------------------------------------
(* Resource links *)

S_dbs == <<"d", "b", "s", "/">>
S_colls == <<"/", "c", "o", "l", "l", "s", "/">>
S_docs == <<"/", "d", "o", "c", "s", "/">>

(* A reference handed to a link function: a raw id (kind "str"), a        *)
(* properties dict carrying an id (kind "dict"), or a materialized object *)
(* (kind "Database", "Container", "Item") with its id and stored link.    *)
StrRef(id) == [kind |-> "str", id |-> id, link |-> <<>>]
DictRef(id) == [kind |-> "dict", id |-> id, link |-> <<>>]
ObjRef(kind, id, link) == [kind |-> kind, id |-> id, link |-> link]

(* a properties dict resolved by the link it carries *)
M_get_database_link(database_or_id) ==
    IF database_or_id.kind = "str"
    THEN S_dbs \o database_or_id.id
    ELSE database_or_id.link

CosmosClient_get_database_link(database_or_id) ==
    IF database_or_id.kind = "str"
    THEN S_dbs \o database_or_id.id
    ELSE IF database_or_id.kind = "Database"
         THEN database_or_id.link
         ELSE S_dbs \o database_or_id.id

(* Database.__init__: self.database_link *)
Database_database_link(id) == CosmosClient_get_database_link(StrRef(id))

(* the link built without the "/colls/" segment between the ids *)
M_get_container_link(database_link, container_or_id) ==
    IF container_or_id.kind = "Container"
    THEN container_or_id.link
    ELSE database_link \o container_or_id.id

Database_get_container_link(database_link, container_or_id) ==
    IF container_or_id.kind = "str"
    THEN database_link \o S_colls \o container_or_id.id
    ELSE IF container_or_id.kind = "Container"
         THEN container_or_id.link
         ELSE database_link \o S_colls \o container_or_id.id

(* the link built without the database link in front *)
M_collection_link(database, id) == S_colls \o id

(* Container.__init__: self.collection_link *)
Container_collection_link(database, id) ==
    CosmosClient_get_database_link(database) \o S_colls \o id

(* every argument taken as an id, the stored _self of an Item unused *)
M_get_document_link(collection_link, item_or_link) ==
    collection_link \o S_docs \o item_or_link.id

Container_get_document_link(collection_link, item_or_link) ==
    IF item_or_link.kind = "str"
    THEN collection_link \o S_docs \o item_or_link.id
    ELSE item_or_link.link

-----------------------------------------------------------------------------
(* Keyword options of the facade calls *)

StrVals == {<<>>, <<"p", "k">>}
IntVals == 0..MaxNum
TokenVals == {<<>>} \cup {<<n>> : n \in 1..MaxToken}
DictVals == {{}, {"h"}}

ParamNames ==
    {"consistency_level", "partition_key", "disable_ru_per_minute_usage",
     "enable_cross_partition_query", "max_degree_parallelism", "max_item_count",
     "session_token", "initial_headers", "access_condition",
     "populate_query_metrics"}

(* The key under which a keyword option travels in request_options. *)
OptionKey(p) ==
    CASE p = "partition_key" -> "partitionKey"
      [] p = "disable_ru_per_minute_usage" -> "disableRUPerMinuteUsage"
      [] p = "enable_cross_partition_query" -> "enableCrossPartitionQuery"
      [] p = "max_degree_parallelism" -> "maxDegreeOfParallelism"
      [] p = "max_item_count" -> "maxItemCount"
      [] p = "session_token" -> "sessionToken"
      [] p = "initial_headers" -> "initialHeaders"
      [] p = "access_condition" -> "accessCondition"
      [] p = "populate_query_metrics" -> "populateQueryMetrics"
      [] OTHER -> "consistencyLevel"

NoArgs == [p \in ParamNames |-> None]

GivenParams(a) == {p \in ParamNames : a[p] # None}

F(p, S, params) == IF p \in params THEN Opt(S) ELSE {None}

(* The keyword arguments a call can be given: values for the parameters of *)
(* its signature, at most MaxSetOptions of them other than None.           *)
ArgsOf(params) ==
    {a \in [consistency_level : F("consistency_level", StrVals, params),
            partition_key : F("partition_key", StrVals, params),
            disable_ru_per_minute_usage : F("disable_ru_per_minute_usage", BOOLEAN, params),
            enable_cross_partition_query : F("enable_cross_partition_query", BOOLEAN, params),
            max_degree_parallelism : F("max_degree_parallelism", IntVals, params),
            max_item_count : F("max_item_count", IntVals, params),
            session_token : F("session_token", TokenVals, params),
            initial_headers : F("initial_headers", DictVals, params),
            access_condition : F("access_condition", DictVals, params),
            populate_query_metrics : F("populate_query_metrics", BOOLEAN, params)] :
        Cardinality(GivenParams(a)) <= MaxSetOptions}

Common4 == {"disable_ru_per_minute_usage", "session_token", "initial_headers",
            "populate_query_metrics"}
Feed3 == {"enable_cross_partition_query", "max_degree_parallelism", "max_item_count"}

create_database_args == ArgsOf(Common4 \cup {"consistency_level", "access_condition"})
get_database_args == ArgsOf(Common4)
list_databases_args == ArgsOf(Common4 \cup Feed3)
list_database_properties_args == ArgsOf(Common4 \cup Feed3)
delete_database_args == ArgsOf(Common4 \cup {"max_degree_parallelism", "access_condition"})
create_container_args == ArgsOf(Common4 \cup {"access_condition"})
delete_container_args == ArgsOf(Common4 \cup {"max_degree_parallelism", "access_condition"})
get_container_args == ArgsOf(Common4)
list_containers_args == ArgsOf(Common4 \cup {"max_degree_parallelism", "max_item_count"})
list_container_properties_args ==
    ArgsOf(Common4 \cup {"max_degree_parallelism", "max_item_count"})
set_container_properties_args == ArgsOf(Common4 \cup {"access_condition"})
get_item_args == ArgsOf(Common4 \cup {"partition_key"})
list_items_args == ArgsOf(Common4 \cup Feed3)
query_items_args == ArgsOf(Common4 \cup Feed3 \cup {"partition_key"})
replace_item_args == ArgsOf(Common4 \cup {"access_condition"})
upsert_item_args == ArgsOf(Common4 \cup {"access_condition"})
create_item_args == ArgsOf(Common4 \cup {"access_condition"})
delete_item_args ==
    ArgsOf(Common4 \cup {"partition_key", "max_degree_parallelism", "access_condition"})

-----------------------------------------------------------------------------
(* Composition of request_options *)

(* if x is not None: request_options[key] = x -- with the slip of writing  *)
(* the key in either case                                                  *)
M_IfNotNone(request_options, key, value) ==
    IF value # None
    THEN (key :> value[1]) @@ request_options
    ELSE (key :> FALSE) @@ request_options

(* if x is not None: request_options[key] = x *)
IfNotNone(request_options, key, value) ==
    IF value # None THEN (key :> value[1]) @@ request_options ELSE request_options

(* if x: request_options[key] = x, x a str *)
IfStr(request_options, key, value) ==
    IF value # None /\ Len(value[1]) > 0
    THEN (key :> value[1]) @@ request_options
    ELSE request_options

(* if x: request_options[key] = x, x a dict *)
IfDict(request_options, key, value) ==
    IF value # None /\ value[1] # {}
    THEN (key :> value[1]) @@ request_options
    ELSE request_options

(* request_options["disableIdGeneration"] = True *)
DisableIdGeneration(request_options) ==
    ("disableIdGeneration" :> TRUE) @@ request_options

get_database_options(a) ==
    LET o1 == IfNotNone(EmptyDict, "disableRUPerMinuteUsage", a.disable_ru_per_minute_usage)
        o2 == IfStr(o1, "sessionToken", a.session_token)
        o3 == IfDict(o2, "initialHeaders", a.initial_headers)
    IN IfNotNone(o3, "populateQueryMetrics", a.populate_query_metrics)

list_databases_options(a) ==
    LET o1 == IfNotNone(EmptyDict, "disableRUPerMinuteUsage", a.disable_ru_per_minute_usage)
        o2 == IfNotNone(o1, "enableCrossPartitionQuery", a.enable_cross_partition_query)
        o3 == IfNotNone(o2, "maxDegreeOfParallelism", a.max_degree_parallelism)
        o4 == IfNotNone(o3, "maxItemCount", a.max_item_count)
        o5 == IfStr(o4, "sessionToken", a.session_token)
        o6 == IfDict(o5, "initialHeaders", a.initial_headers)
    IN IfNotNone(o6, "populateQueryMetrics", a.populate_query_metrics)

list_database_properties_options(a) ==
    LET o1 == IfNotNone(EmptyDict, "disableRUPerMinuteUsage", a.disable_ru_per_minute_usage)
        o2 == IfNotNone(o1, "enableCrossPartitionQuery", a.enable_cross_partition_query)
        o3 == IfNotNone(o2, "maxDegreeOfParallelism", a.max_degree_parallelism)
        o4 == IfNotNone(o3, "maxItemCount", a.max_item_count)
        o5 == IfStr(o4, "sessionToken", a.session_token)
        o6 == IfDict(o5, "initialHeaders", a.initial_headers)
    IN IfNotNone(o6, "populateQueryMetrics", a.populate_query_metrics)

delete_database_options(a) ==
    LET o1 == IfNotNone(EmptyDict, "disableRUPerMinuteUsage", a.disable_ru_per_minute_usage)
        o2 == IfNotNone(o1, "maxDegreeOfParallelism", a.max_degree_parallelism)
        o3 == IfStr(o2, "sessionToken", a.session_token)
        o4 == IfDict(o3, "initialHeaders", a.initial_headers)
        o5 == IfDict(o4, "accessCondition", a.access_condition)
    IN IfNotNone(o5, "populateQueryMetrics", a.populate_query_metrics)

create_container_options(a) ==
    LET o1 == IfNotNone(EmptyDict, "disableRUPerMinuteUsage", a.disable_ru_per_minute_usage)
        o2 == IfStr(o1, "sessionToken", a.session_token)
        o3 == IfDict(o2, "initialHeaders", a.initial_headers)
        o4 == IfDict(o3, "accessCondition", a.access_condition)
    IN IfNotNone(o4, "populateQueryMetrics", a.populate_query_metrics)

delete_container_options(a) ==
    LET o1 == IfNotNone(EmptyDict, "disableRUPerMinuteUsage", a.disable_ru_per_minute_usage)
        o2 == IfNotNone(o1, "maxDegreeOfParallelism", a.max_degree_parallelism)
        o3 == IfStr(o2, "sessionToken", a.session_token)
        o4 == IfDict(o3, "initialHeaders", a.initial_headers)
        o5 == IfDict(o4, "accessCondition", a.access_condition)
    IN IfNotNone(o5, "populateQueryMetrics", a.populate_query_metrics)

get_container_options(a) ==
    LET o1 == IfNotNone(EmptyDict, "disableRUPerMinuteUsage", a.disable_ru_per_minute_usage)
        o2 == IfStr(o1, "sessionToken", a.session_token)
        o3 == IfDict(o2, "initialHeaders", a.initial_headers)
    IN IfNotNone(o3, "populateQueryMetrics", a.populate_query_metrics)

list_containers_options(a) ==
    LET o1 == IfNotNone(EmptyDict, "disableRUPerMinuteUsage", a.disable_ru_per_minute_usage)
        o2 == IfNotNone(o1, "maxDegreeOfParallelism", a.max_degree_parallelism)
        o3 == IfNotNone(o2, "maxItemCount", a.max_item_count)
        o4 == IfStr(o3, "sessionToken", a.session_token)
        o5 == IfDict(o4, "initialHeaders", a.initial_headers)
    IN IfNotNone(o5, "populateQueryMetrics", a.populate_query_metrics)

list_container_properties_options(a) ==
    LET o1 == IfNotNone(EmptyDict, "disableRUPerMinuteUsage", a.disable_ru_per_minute_usage)
        o2 == IfStr(o1, "sessionToken", a.session_token)
        o3 == IfDict(o2, "initialHeaders", a.initial_headers)
    IN IfNotNone(o3, "populateQueryMetrics", a.populate_query_metrics)

set_container_properties_options(a) ==
    LET o1 == IfNotNone(EmptyDict, "disableRUPerMinuteUsage", a.disable_ru_per_minute_usage)
        o2 == IfStr(o1, "sessionToken", a.session_token)
        o3 == IfDict(o2, "initialHeaders", a.initial_headers)
        o4 == IfDict(o3, "accessCondition", a.access_condition)
    IN IfNotNone(o4, "populateQueryMetrics", a.populate_query_metrics)

get_item_options(a) ==
    LET o1 == IfStr(EmptyDict, "partitionKey", a.partition_key)
        o2 == IfNotNone(o1, "disableRUPerMinuteUsage", a.disable_ru_per_minute_usage)
        o3 == IfStr(o2, "sessionToken", a.session_token)
        o4 == IfDict(o3, "initialHeaders", a.initial_headers)
    IN IfNotNone(o4, "populateQueryMetrics", a.populate_query_metrics)

list_items_options(a) ==
    LET o1 == IfNotNone(EmptyDict, "disableRUPerMinuteUsage", a.disable_ru_per_minute_usage)
        o2 == IfNotNone(o1, "enableCrossPartitionQuery", a.enable_cross_partition_query)
        o3 == IfNotNone(o2, "maxDegreeOfParallelism", a.max_degree_parallelism)
        o4 == IfNotNone(o3, "maxItemCount", a.max_item_count)
        o5 == IfStr(o4, "sessionToken", a.session_token)
        o6 == IfDict(o5, "initialHeaders", a.initial_headers)
    IN IfNotNone(o6, "populateQueryMetrics", a.populate_query_metrics)

query_items_options(a) ==
    LET o1 == IfNotNone(EmptyDict, "disableRUPerMinuteUsage", a.disable_ru_per_minute_usage)
        o2 == IfNotNone(o1, "enableCrossPartitionQuery", a.enable_cross_partition_query)
        o3 == IfNotNone(o2, "maxDegreeOfParallelism", a.max_degree_parallelism)
        o4 == IfNotNone(o3, "maxItemCount", a.max_item_count)
        o5 == IfStr(o4, "sessionToken", a.session_token)
        o6 == IfDict(o5, "initialHeaders", a.initial_headers)
    IN IfNotNone(o6, "populateQueryMetrics", a.populate_query_metrics)

replace_item_options(a) ==
    LET o0 == DisableIdGeneration(EmptyDict)
        o1 == IfNotNone(o0, "disableRUPerMinuteUsage", a.disable_ru_per_minute_usage)
        o2 == IfStr(o1, "sessionToken", a.session_token)
        o3 == IfDict(o2, "initialHeaders", a.initial_headers)
        o4 == IfDict(o3, "accessCondition", a.access_condition)
    IN IfNotNone(o4, "populateQueryMetrics", a.populate_query_metrics)

upsert_item_options(a) ==
    LET o0 == DisableIdGeneration(EmptyDict)
        o1 == IfNotNone(o0, "disableRUPerMinuteUsage", a.disable_ru_per_minute_usage)
        o2 == IfStr(o1, "sessionToken", a.session_token)
        o3 == IfDict(o2, "initialHeaders", a.initial_headers)
        o4 == IfDict(o3, "accessCondition", a.access_condition)
    IN IfNotNone(o4, "populateQueryMetrics", a.populate_query_metrics)

create_item_options(a) ==
    LET o0 == DisableIdGeneration(EmptyDict)
        o1 == IfNotNone(o0, "disableRUPerMinuteUsage", a.disable_ru_per_minute_usage)
        o2 == IfStr(o1, "sessionToken", a.session_token)
        o3 == IfDict(o2, "initialHeaders", a.initial_headers)
        o4 == IfDict(o3, "accessCondition", a.access_condition)
    IN IfNotNone(o4, "populateQueryMetrics", a.populate_query_metrics)

delete_item_options(a) ==
    LET o1 == IfStr(EmptyDict, "partitionKey", a.partition_key)
        o2 == IfNotNone(o1, "disableRUPerMinuteUsage", a.disable_ru_per_minute_usage)
        o3 == IfNotNone(o2, "maxDegreeOfParallelism", a.max_degree_parallelism)
        o4 == IfStr(o3, "sessionToken", a.session_token)
        o5 == IfDict(o4, "initialHeaders", a.initial_headers)
        o6 == IfDict(o5, "accessCondition", a.access_condition)
    IN IfNotNone(o6, "populateQueryMetrics", a.populate_query_metrics)

-----------------------------------------------------------------------------
(* Transport: the wrapped internal client and the service behind it.       *)
(* Every resource is stored under its name based link.                     *)

AlreadyExists == "HTTPFailure(409)"
NotFound == "HTTPFailure(404)"
TransportFailure == "HTTPFailure(503)"

RECURSIVE TrimLeft(_)
TrimLeft(s) == IF s # <<>> /\ Head(s) = "/" THEN TrimLeft(Tail(s)) ELSE s

RECURSIVE TrimRight(_)
TrimRight(s) ==
    IF s # <<>> /\ s[Len(s)] = "/" THEN TrimRight(SubSeq(s, 1, Len(s) - 1)) ELSE s

(* Links are taken without their leading and trailing slashes. *)
TrimSlashes(link) == TrimRight(TrimLeft(link))

(* The self link the service assigns to a stored resource. *)
SelfLink(link) == link \o <<"/">>

ChildLink(parent, segment, id) ==
    (IF parent = <<>> THEN <<>> ELSE parent \o <<"/">>) \o segment \o <<"/">> \o id

Children(srv, parent, segment) ==
    LET prefix == ChildLink(parent, segment, <<>>)
    IN {l \in DOMAIN srv :
            /\ IsPrefix(prefix, l)
            /\ Len(l) > Len(prefix)
            /\ "/" \notin Range(SubSeq(l, Len(prefix) + 1, Len(l)))}

Descendants(srv, link) == {l \in DOMAIN srv : IsPrefix(link \o <<"/">>, l)}

Without(srv, links) == [l \in DOMAIN srv \ links |-> srv[l]]

Answer(failure, srv, data, target) ==
    [failure |-> failure, server |-> srv, data |-> data, target |-> target]

ParentExists(srv, parent) == parent = <<>> \/ parent \in DOMAIN srv

TransportCreate(srv, parent_link, segment, body) ==
    LET parent == TrimSlashes(parent_link)
        new == ChildLink(parent, segment, body["id"])
    IN IF ~ParentExists(srv, parent) THEN Answer(Some(NotFound), srv, None, new)
       ELSE IF new \in DOMAIN srv THEN Answer(Some(AlreadyExists), srv, None, new)
       ELSE Answer(None, (new :> body) @@ srv, Some(body), new)

TransportUpsert(srv, parent_link, segment, body) ==
    LET parent == TrimSlashes(parent_link)
        new == ChildLink(parent, segment, body["id"])
    IN IF ~ParentExists(srv, parent) THEN Answer(Some(NotFound), srv, None, new)
       ELSE Answer(None, (new :> body) @@ srv, Some(body), new)

TransportRead(srv, link) ==
    LET l == TrimSlashes(link)
    IN IF l \notin DOMAIN srv THEN Answer(Some(NotFound), srv, None, l)
       ELSE Answer(None, srv, Some(srv[l]), l)

TransportReplace(srv, link, body) ==
    LET l == TrimSlashes(link)
    IN IF l \notin DOMAIN srv THEN Answer(Some(NotFound), srv, None, l)
       ELSE Answer(None, (l :> body) @@ srv, Some(body), l)

TransportDelete(srv, link) ==
    LET l == TrimSlashes(link)
    IN IF l \notin DOMAIN srv THEN Answer(Some(NotFound), srv, None, l)
       ELSE Answer(None, Without(srv, {l} \cup Descendants(srv, l)), None, l)

(* A feed (read all or query): the children of the parent. *)
TransportFeed(srv, parent_link, segment) ==
    LET parent == TrimSlashes(parent_link)
    IN IF ~ParentExists(srv, parent) THEN Answer(Some(NotFound), srv, None, parent)
       ELSE Answer(None, srv, Some({srv[l] : l \in Children(srv, parent, segment)}), parent)

(* What Transport answers to one call: a failure of its own, the           *)
(* service's failure, or the result with the response headers; only a      *)
(* response replaces last_response_headers.                                *)
Responses(hdrs) ==
    {[fault |-> Some(TransportFailure), headers |-> None]}
        \cup [fault : {None}, headers : hdrs]

Respond(answer, resp) ==
    IF resp.fault # None
    THEN [failure |-> resp.fault, server |-> server, data |-> None,
          target |-> answer.target, headers |-> last_response_headers]
    ELSE IF answer.failure # None
         THEN [failure |-> answer.failure, server |-> server, data |-> None,
               target |-> answer.target, headers |-> last_response_headers]
         ELSE [failure |-> None, server |-> answer.server, data |-> answer.data,
               target |-> answer.target, headers |-> resp.headers]

(* The call raised before Transport was reached. *)
Raised(error) ==
    [failure |-> Some(error), server |-> server, data |-> None,
     target |-> None, headers |-> last_response_headers]

(* A request as handed to Transport; options is None when the call passes  *)
(* no option set.                                                          *)
Request(rpc, link, options, body, partition_key) ==
    Some([rpc |-> rpc, link |-> link, options |-> options, body |-> body,
          partition_key |-> partition_key])

-----------------------------------------------------------------------------
(* The facade objects: one CosmosClient, the Database object built for     *)
(* TheDatabaseId and the Container object built for TheContainerId in it.  *)

TheDatabaseId == <<"a">>
TheContainerId == <<"a">>

self_database_link == Database_database_link(TheDatabaseId)
TheDatabase == ObjRef("Database", TheDatabaseId, self_database_link)

self_collection_link == Container_collection_link(TheDatabase, TheContainerId)
TheContainer == ObjRef("Container", TheContainerId, self_collection_link)

Seg_dbs == <<"d", "b", "s">>
Seg_colls == <<"c", "o", "l", "l", "s">>
Seg_docs == <<"d", "o", "c", "s">>

DatabaseRefs(ids) ==
    UNION {{StrRef(i), DictRef(i), ObjRef("Database", i, Database_database_link(i))} :
           i \in ids}

ContainerRefs(ids) ==
    UNION {{StrRef(i), DictRef(i),
            ObjRef("Container", i, Container_collection_link(TheDatabase, i))} :
           i \in ids}

(* An item addressed by id, or by an Item read earlier (its _self). *)
ItemRefs(ids) ==
    UNION {{StrRef(i),
            ObjRef("Item", i,
                   SelfLink(Container_get_document_link(self_collection_link, StrRef(i))))} :
           i \in ids}

ItemBodies(ids, payloads) == [id : ids, v : payloads]

(* History, for the properties: what was created and upserted. *)

LastTwo(s) == IF Len(s) > 2 THEN SubSeq(s, Len(s) - 1, Len(s)) ELSE s

(* The links made by a successful create and still there. *)
Created(c, srv) ==
    IF c.failure # None THEN created
    ELSE IF c.op \in {"create_item", "create_container"} THEN created \cup {c.target}
    ELSE {l \in created : l \in DOMAIN srv}

(* The bodies of the latest successful upserts of a link, since any other  *)
(* write of it.                                                            *)
Upserts(c, srv) ==
    IF c.failure # None \/ c.op = "get_item" THEN upserts
    ELSE IF c.op = "upsert_item"
         THEN LET before == IF c.target \in DOMAIN upserts THEN upserts[c.target]
                            ELSE <<>>
              IN (c.target :> LastTwo(Append(before, c.treq[1].body[1]))) @@ upserts
         ELSE [l \in {k \in DOMAIN upserts : k \in DOMAIN srv /\ k # c.target}
                  |-> upserts[l]]

-----------------------------------------------------------------------------
(* The paged query. The container's items 1 .. MaxKey lie in partitions;   *)
(* a partition serves its items sorted by the order key, PageSize to a     *)
(* page, each page with a request charge and a continuation.               *)

Partitions == {"p1", "p2", "p3"}
PartitionOrder == <<"p1", "p2", "p3">>
PartitionRank(p) == CHOOSE i \in 1..Len(PartitionOrder) : PartitionOrder[i] = p

Items == 1..MaxKey

(* the ORDER BY key of an item; two items can carry the same key *)
OrderKey(item) == (item + 1) \div 2

Before(i, j) == OrderKey(i) < OrderKey(j) \/ (OrderKey(i) = OrderKey(j) /\ i < j)

RECURSIVE Sorted(_)
Sorted(S) ==
    IF S = {} THEN <<>>
    ELSE LET first == CHOOSE i \in S : \A j \in S \ {i} : Before(i, j)
         IN <<first>> \o Sorted(S \ {first})

Layouts == [Items -> Partitions]

PartitionFeed(layout, p) == Sorted({i \in Items : layout[i] = p})

PageCount(layout, p) == (Len(PartitionFeed(layout, p)) + PageSize - 1) \div PageSize

(* The n-th page of the partition; a partition without items serves one   *)
(* empty page.                                                            *)
Page(layout, p, n) ==
    LET feed == PartitionFeed(layout, p)
        last == IF n * PageSize < Len(feed) THEN n * PageSize ELSE Len(feed)
    IN SubSeq(feed, (n - 1) * PageSize + 1, last)

PagesToFetch(layout, p) == IF PageCount(layout, p) = 0 THEN 1 ELSE PageCount(layout, p)

(* the request charge the service reports for a page *)
PageCharge(page) == Len(page) + 1

(* The state behind the iterator query_items returns: per partition the  *)
(* pages fetched, the fetch in flight and the buffered page; what was    *)
(* yielded; the Transport calls issued and the charges of the pages      *)
(* fetched; the charge in last_response_headers and in the iterator's    *)
(* metadata.                                                             *)
NewExecutor(layout, last_charge) ==
    [layout |-> layout,
     state |-> "Idle",
     fetched |-> [p \in Partitions |-> 0],
     inflight |-> [p \in Partitions |-> FALSE],
     buffer |-> [p \in Partitions |-> <<>>],
     yielded |-> <<>>,
     abandoned |-> FALSE,
     calls |-> 0,
     charged |-> 0,
     last_charge |-> last_charge,
     metadata_charge |-> None,
     stops |-> 0,
     error |-> None,
     replans |-> 0]

(* query_items: headers = last_response_headers; the iterator is built    *)
(* with metadata = ResponseMetadata(headers) before any page is fetched.  *)
Planned(c) ==
    IF executor = None \/ c.op # "query_items" \/ c.failure # None THEN executor
    ELSE LET e == executor[1]
         IN Some([NewExecutor(e.layout, e.last_charge) EXCEPT
                     !.state = "Planning",
                     !.metadata_charge = Some(e.last_charge)])

(* The outcome of a call: every variable of the facade and of Transport,   *)
(* and the history.                                                        *)
Done(op, a, req, t, resp, sess, csess, pend, ret_headers) ==
    LET call == [op |-> op, args |-> a, treq |-> req, target |-> t.target,
                 fault |-> IF t.failure = resp.fault THEN resp.fault ELSE None,
                 failure |-> t.failure, ret |-> t.data,
                 ret_headers |-> ret_headers]
    IN /\ server' = t.server
       /\ last_response_headers' = t.headers
       /\ session_token' = sess
       /\ client_session_token' = csess
       /\ pending_query' = pend
       /\ lastCall' = call
       /\ created' = Created(call, t.server)
       /\ upserts' = Upserts(call, t.server)
       /\ executor' = Planned(call)
       /\ UNCHANGED <<linkIn, linkOut, inflight>>

Same(op, a, req, t, resp, ret_headers) ==
    Done(op, a, req, t, resp, session_token, client_session_token, pending_query,
         ret_headers)

-----------------------------------------------------------------------------
(* CosmosClient *)

create_database(id, a, resp) ==
    LET body == [id |-> id]
        t == Respond(TransportCreate(server, <<>>, Seg_dbs, body), resp)
    IN Same("create_database", a,
            Request("CreateDatabase", <<>>, None, Some(body), None), t, resp, None)

get_database(database, a, resp) ==
    LET database_link == CosmosClient_get_database_link(database)
        request_options == get_database_options(a)
        t == Respond(TransportRead(server, database_link), resp)
    IN Same("get_database", a,
            Request("ReadDatabase", database_link, Some(request_options), None, None),
            t, resp, IF t.failure = None THEN Some(t.headers) ELSE None)

list_databases(a, resp) ==
    LET request_options == list_databases_options(a)
        t == Respond(TransportFeed(server, <<>>, Seg_dbs), resp)
    IN Same("list_databases", a,
            Request("ReadDatabases", <<>>, Some(request_options), None, None),
            t, resp, None)

(* The feed is drained inside the call, so the headers read afterwards are *)
(* those of its response; self.session_token = headers.get(...) is None    *)
(* when the header is missing.                                             *)
list_database_properties(query, a, resp) ==
    LET request_options == list_database_properties_options(a)
        rpc == IF query # None /\ Len(query[1]) > 0
               THEN "QueryDatabases" ELSE "ReadDatabases"
        t == Respond(TransportFeed(server, <<>>, Seg_dbs), resp)
    IN Done("list_database_properties", a,
            Request(rpc, <<>>, Some(request_options), None, None), t, resp,
            session_token,
            IF t.failure = None THEN t.headers ELSE client_session_token,
            pending_query,
            IF t.failure = None THEN Some(t.headers) ELSE None)

delete_database(database, a, resp) ==
    LET request_options == delete_database_options(a)
        database_link == CosmosClient_get_database_link(database)
        t == Respond(TransportDelete(server, database_link), resp)
    IN Same("delete_database", a,
            Request("DeleteDatabase", database_link, Some(request_options), None, None),
            t, resp, None)

-----------------------------------------------------------------------------
(* Database *)

(* A value given as default_ttl: an int, a float with a fraction (n + 0.5) *)
(* or a str that is not a number.                                          *)
PyInt(n) == [type |-> "int", n |-> n]
PyFloat(n) == [type |-> "float", n |-> n]
PyStr == [type |-> "str", n |-> 0]

(* Python truth of the value in "if default_ttl:" *)
Truthy(value) == value # None /\ value[1] # PyInt(0)

(* int(value): TypeError for None, ValueError for a str that is no number, *)
(* the integer part of a float.                                            *)
Python_int(value) ==
    IF value = None THEN [failure |-> Some("TypeError"), value |-> None]
    ELSE IF value[1].type = "str" THEN [failure |-> Some("ValueError"), value |-> None]
    ELSE [failure |-> None, value |-> Some(PyInt(value[1].n))]

(* the call's keyword arguments, default_ttl among them *)
WithTtl(a, default_ttl) == ("default_ttl" :> default_ttl) @@ a

create_container(id, default_ttl, a, resp) ==
    LET definition == IF Truthy(default_ttl)
                      THEN ("defaultTtl" :> default_ttl[1]) @@ ("id" :> id)
                      ELSE ("id" :> id)
        request_options == create_container_options(a)
        t == Respond(TransportCreate(server, self_database_link, Seg_colls, definition),
                     resp)
    IN Same("create_container", WithTtl(a, default_ttl),
            Request("CreateContainer", self_database_link, Some(request_options),
                    Some(definition), None),
            t, resp, None)

delete_container(container, a, resp) ==
    LET request_options == delete_container_options(a)
        collection_link == Database_get_container_link(self_database_link, container)
        t == Respond(TransportDelete(server, collection_link), resp)
    IN Same("delete_container", a,
            Request("DeleteContainer", collection_link, Some(request_options), None, None),
            t, resp, None)

get_container(container, a, resp) ==
    LET request_options == get_container_options(a)
        collection_link == Database_get_container_link(self_database_link, container)
        t == Respond(TransportRead(server, collection_link), resp)
    IN Same("get_container", a,
            Request("ReadContainer", collection_link, Some(request_options), None, None),
            t, resp, None)

list_containers(a, resp) ==
    LET request_options == list_containers_options(a)
        t == Respond(TransportFeed(server, self_database_link, Seg_colls), resp)
    IN Same("list_containers", a,
            Request("ReadContainers", self_database_link, Some(request_options),
                    None, None),
            t, resp, None)

list_container_properties(a, resp) ==
    LET request_options == list_container_properties_options(a)
        t == Respond(TransportFeed(server, self_database_link, Seg_colls), resp)
    IN Same("list_container_properties", a,
            Request("QueryContainers", self_database_link, Some(request_options),
                    None, None),
            t, resp, IF t.failure = None THEN Some(t.headers) ELSE None)

(* int(default_ttl) raises TypeError on None, after request_options is     *)
(* composed and before Transport is called.                                *)
set_container_properties(container, default_ttl, a, resp) ==
    LET container_id == container.id
        request_options == set_container_properties_options(a)
        seconds == Python_int(default_ttl)
        parameters == ("defaultTtl" :> seconds.value[1]) @@ ("id" :> container_id)
        collection_link == self_database_link \o S_colls \o container_id
        t == Respond(TransportReplace(server, collection_link, parameters), resp)
    IN IF seconds.failure # None
       THEN Same("set_container_properties", WithTtl(a, default_ttl), None,
                 Raised(seconds.failure[1]), resp, None)
       ELSE Same("set_container_properties", WithTtl(a, default_ttl),
                 Request("ReplaceContainer", collection_link, Some(request_options),
                         Some(parameters), None),
                 t, resp, None)

-----------------------------------------------------------------------------
(* Container *)

(* headers.get("x-ms-session-token", self.session_token) *)
HeadersGet(headers, default) == IF headers # None THEN headers ELSE default

get_item(id, a, resp) ==
    LET doc_link == Container_get_document_link(self_collection_link, StrRef(id))
        request_options == get_item_options(a)
        t == Respond(TransportRead(server, doc_link), resp)
        headers == t.headers
    IN Done("get_item", a,
            Request("ReadItem", doc_link, Some(request_options), None, None), t, resp,
            IF t.failure = None THEN HeadersGet(headers, session_token)
            ELSE session_token,
            client_session_token, pending_query,
            IF t.failure = None THEN Some(headers) ELSE None)

(* ReadItems returns a lazy iterable: the headers are read before the feed *)
(* is drained, so the items carry the headers of the response before.      *)
list_items(a, resp) ==
    LET request_options == list_items_options(a)
        headers == last_response_headers
        t == Respond(TransportFeed(server, self_collection_link, Seg_docs), resp)
    IN Same("list_items", a,
            Request("ReadItems", self_collection_link, Some(request_options), None, None),
            t, resp, IF t.failure = None THEN Some(headers) ELSE None)

(* QueryItems returns a lazy iterable and nothing is fetched in the call:  *)
(* the headers read are those of the response before, and                  *)
(* headers["x-ms-session-token"] raises KeyError when they carry no token. *)
query_items(a) ==
    LET request_options == query_items_options(a)
        headers == last_response_headers
        link == TrimSlashes(self_collection_link)
        t == [failure |-> IF headers = None THEN Some("KeyError") ELSE None,
              server |-> server, data |-> None, target |-> link,
              headers |-> last_response_headers]
    IN Done("query_items", a,
            Request("QueryItems", self_collection_link, Some(request_options), None,
                    a.partition_key),
            t, [fault |-> None, headers |-> None],
            IF headers = None THEN session_token ELSE headers,
            client_session_token,
            IF headers = None THEN pending_query ELSE Some(self_collection_link),
            IF headers = None THEN None ELSE Some(headers))

(* The caller iterates the QueryResultIterator: the query is fetched. *)
iterate(resp) ==
    /\ pending_query # None
    /\ LET t == Respond(TransportFeed(server, pending_query[1], Seg_docs), resp)
       IN Done("iterate", NoArgs, None, t, resp, session_token, client_session_token,
               None, None)

replace_item(item, body, a, resp) ==
    LET item_link == Container_get_document_link(self_collection_link, item)
        request_options == replace_item_options(a)
        t == Respond(TransportReplace(server, item_link, body), resp)
    IN Same("replace_item", a,
            Request("ReplaceItem", item_link, Some(request_options), Some(body), None),
            t, resp, IF t.failure = None THEN Some(t.headers) ELSE None)

(* the slip of sending the body with CreateItem *)
M_upsert_item(body, a, resp) ==
    LET request_options == upsert_item_options(a)
        t == Respond(TransportCreate(server, self_collection_link, Seg_docs, body), resp)
    IN Same("upsert_item", a,
            Request("UpsertItem", self_collection_link, None, Some(body), None),
            t, resp, IF t.failure = None THEN Some(t.headers) ELSE None)

(* request_options is composed and not handed to UpsertItem. *)
upsert_item(body, a, resp) ==
    LET request_options == upsert_item_options(a)
        t == Respond(TransportUpsert(server, self_collection_link, Seg_docs, body), resp)
    IN Same("upsert_item", a,
            Request("UpsertItem", self_collection_link, None, Some(body), None),
            t, resp, IF t.failure = None THEN Some(t.headers) ELSE None)

(* the slip of sending the body with UpsertItem *)
M_create_item(body, a, resp) ==
    LET request_options == create_item_options(a)
        t == Respond(TransportUpsert(server, self_collection_link, Seg_docs, body), resp)
    IN Same("create_item", a,
            Request("CreateItem", self_collection_link, Some(request_options),
                    Some(body), None),
            t, resp, IF t.failure = None THEN Some(t.headers) ELSE None)

create_item(body, a, resp) ==
    LET request_options == create_item_options(a)
        t == Respond(TransportCreate(server, self_collection_link, Seg_docs, body), resp)
    IN Same("create_item", a,
            Request("CreateItem", self_collection_link, Some(request_options),
                    Some(body), None),
            t, resp, IF t.failure = None THEN Some(t.headers) ELSE None)

(* options=request_options or None *)
delete_item(item, a, resp) ==
    LET request_options == delete_item_options(a)
        document_link == Container_get_document_link(self_collection_link, item)
        t == Respond(TransportDelete(server, document_link), resp)
    IN Same("delete_item", a,
            Request("DeleteItem", document_link,
                    IF DOMAIN request_options = {} THEN None ELSE Some(request_options),
                    None, None),
            t, resp, None)

-----------------------------------------------------------------------------
(* The container machine: the calls of one Container object, in any order, *)
(* against a Transport that holds its database and container.              *)

NoCall ==
    [op |-> "init", args |-> NoArgs, treq |-> None, target |-> None, fault |-> None,
     failure |-> None, ret |-> None, ret_headers |-> None]

DatabaseBody == [id |-> TheDatabaseId]
ContainerBody == ("id" :> TheContainerId)
ItemIds == {<<"a">>}

ServerWithContainer ==
    (TrimSlashes(self_collection_link) :> ContainerBody)
        @@ (TrimSlashes(self_database_link) :> DatabaseBody)

NoHistory == created = {} /\ upserts = EmptyDict /\ executor = None
NoLinks == linkIn = None /\ linkOut = None
NoThreads == inflight = None

Init ==
    /\ server = ServerWithContainer
    /\ last_response_headers = None
    /\ session_token = None
    /\ client_session_token = None
    /\ pending_query = None
    /\ lastCall = NoCall
    /\ NoHistory
    /\ NoLinks
    /\ NoThreads

(* A call is given no option, or the newest session token. *)
SessionArgs ==
    {a \in ArgsOf({"session_token"}) : a.session_token \in {None, Some(<<MaxToken>>)}}

Next ==
    \E resp \in Responses(Opt(TokenVals)), a \in SessionArgs :
        \/ \E id \in ItemIds : get_item(id, a, resp)
        \/ list_items(a, resp)
        \/ query_items(a)
        \/ iterate(resp)
        \/ \E body \in ItemBodies(ItemIds, {"p1"}) :
              replace_item(StrRef(body.id), body, a, resp)
        \/ \E body \in ItemBodies(ItemIds, {"p1"}) : upsert_item(body, a, resp)
        \/ \E body \in ItemBodies(ItemIds, {"p1"}) : create_item(body, a, resp)
        \/ \E id \in ItemIds : delete_item(StrRef(id), a, resp)

Spec == Init /\ [][Next]_vars

-----------------------------------------------------------------------------
(* Option composition: every call of the three objects, once, with every   *)
(* combination of at most MaxSetOptions keyword options, from a fresh      *)
(* account and from a populated one.                                       *)

ServerWithItem ==
    (TrimSlashes(Container_get_document_link(self_collection_link, StrRef(<<"a">>)))
        :> [id |-> <<"a">>, v |-> "p1"]) @@ ServerWithContainer

InitOptions ==
    /\ \/ /\ server = EmptyDict
          /\ last_response_headers = None
          /\ session_token = None
          /\ pending_query = None
       \/ /\ server = ServerWithItem
          /\ last_response_headers = Some(<<1>>)
          /\ session_token = Some(<<1>>)
          /\ pending_query = Some(self_collection_link)
    /\ client_session_token = None
    /\ lastCall = NoCall
    /\ NoHistory
    /\ NoLinks
    /\ NoThreads

Queries == {None, Some(<<"q">>)}
Ttls == Opt({PyInt(n) : n \in IntVals} \cup {PyFloat(n) : n \in IntVals} \cup {PyStr})
OneId == {TheDatabaseId}

(* One call is made from each initial state. *)
FirstCall == lastCall.op = "init"

NextOptions ==
    \E resp \in Responses({None, Some(<<1>>)}) :
        \/ FirstCall /\ \E a \in create_database_args : create_database(TheDatabaseId, a, resp)
        \/ FirstCall /\ \E a \in get_database_args, database \in DatabaseRefs(OneId) :
              get_database(database, a, resp)
        \/ FirstCall /\ \E a \in list_databases_args : list_databases(a, resp)
        \/ FirstCall /\ \E a \in list_database_properties_args, query \in Queries :
              list_database_properties(query, a, resp)
        \/ FirstCall /\ \E a \in delete_database_args, database \in DatabaseRefs(OneId) :
              delete_database(database, a, resp)
        \/ FirstCall /\ \E a \in create_container_args, default_ttl \in Ttls :
              create_container(TheContainerId, default_ttl, a, resp)
        \/ FirstCall /\ \E a \in delete_container_args, container \in ContainerRefs(OneId) :
              delete_container(container, a, resp)
        \/ FirstCall /\ \E a \in get_container_args, container \in ContainerRefs(OneId) :
              get_container(container, a, resp)
        \/ FirstCall /\ \E a \in list_containers_args : list_containers(a, resp)
        \/ FirstCall /\ \E a \in list_container_properties_args :
              list_container_properties(a, resp)
        \/ FirstCall /\ \E a \in set_container_properties_args, default_ttl \in Ttls :
              set_container_properties(StrRef(TheContainerId), default_ttl, a, resp)
        \/ FirstCall /\ \E a \in get_item_args, id \in ItemIds : get_item(id, a, resp)
        \/ FirstCall /\ \E a \in list_items_args : list_items(a, resp)
        \/ FirstCall /\ \E a \in query_items_args : query_items(a)
        \/ FirstCall /\ iterate(resp)
        \/ FirstCall /\ \E a \in replace_item_args, item \in ItemRefs(ItemIds),
                            body \in ItemBodies(ItemIds, {"p1"}) :
              replace_item(item, body, a, resp)
        \/ FirstCall /\ \E a \in upsert_item_args, body \in ItemBodies(ItemIds, {"p1"}) :
              upsert_item(body, a, resp)
        \/ FirstCall /\ \E a \in create_item_args, body \in ItemBodies(ItemIds, {"p1"}) :
              create_item(body, a, resp)
        \/ FirstCall /\ \E a \in delete_item_args, item \in ItemRefs(ItemIds) :
              delete_item(item, a, resp)

SpecOptions == InitOptions /\ [][NextOptions]_vars

-----------------------------------------------------------------------------
(* Create, upsert, replace, delete and get of two items with two payloads, *)
(* with the history of what was created and upserted.                      *)

CrudIds == {<<"a">>, <<"b">>}
Payloads == {"p1", "p2"}

InitCrud ==
    /\ server = (TrimSlashes(self_database_link) :> DatabaseBody)
    /\ last_response_headers = Some(<<1>>)
    /\ session_token = None
    /\ client_session_token = None
    /\ pending_query = None
    /\ lastCall = NoCall
    /\ NoHistory
    /\ NoLinks
    /\ NoThreads

NextCrud ==
    \E resp \in Responses({Some(<<1>>)}) :
          \/ create_container(TheContainerId, None, NoArgs, resp)
          \/ delete_container(TheContainer, NoArgs, resp)
          \/ \E id \in CrudIds : get_item(id, NoArgs, resp)
          \/ \E id \in CrudIds, v \in Payloads :
                replace_item(StrRef(id), [id |-> id, v |-> v], NoArgs, resp)
          \/ \E body \in ItemBodies(CrudIds, Payloads) : upsert_item(body, NoArgs, resp)
          \/ \E body \in ItemBodies(CrudIds, Payloads) : create_item(body, NoArgs, resp)
          \/ \E id \in CrudIds : delete_item(StrRef(id), NoArgs, resp)

SpecCrud == InitCrud /\ [][NextCrud]_vars

-----------------------------------------------------------------------------
(* The link functions, applied to ids drawn from every string over Chars   *)
(* of length at most MaxIdLen.                                             *)

Chars == {"a", "/"}

RECURSIVE Strings(_)
Strings(n) ==
    IF n = 0 THEN {<<>>}
    ELSE LET shorter == Strings(n - 1)
         IN shorter \cup {Append(s, c) : s \in {t \in shorter : Len(t) = n - 1}, c \in Chars}

Ids == Strings(MaxIdLen)

(* an id the service accepts: not empty, no path separator *)
ValidId(id) == id # <<>> /\ "/" \notin Range(id)
ValidIds == {id \in Ids : ValidId(id)}

LinksOf(database, container, item, kind) ==
    LET Ref(id) == IF kind = "str" THEN StrRef(id) ELSE DictRef(id)
        database_link == CosmosClient_get_database_link(Ref(database))
        collection_link == Database_get_container_link(database_link, Ref(container))
    IN [database |-> database_link,
        container |-> collection_link,
        document |-> Container_get_document_link(collection_link, StrRef(item))]

InitLink ==
    /\ server = EmptyDict
    /\ last_response_headers = None
    /\ session_token = None
    /\ client_session_token = None
    /\ pending_query = None
    /\ lastCall = NoCall
    /\ NoHistory
    /\ linkIn \in [database : Ids, container : Ids, item : Ids]
    /\ linkOut = None
    /\ NoThreads

build_links ==
    /\ linkOut = None
    /\ \E kind \in {"str", "dict"} :
          linkOut' = Some([kind |-> kind,
                           first |-> LinksOf(linkIn.database, linkIn.container,
                                             linkIn.item, kind),
                           second |-> LinksOf(linkIn.database, linkIn.container,
                                              linkIn.item, kind)])
    /\ UNCHANGED <<server, last_response_headers, session_token, client_session_token,
                   pending_query, lastCall, created, upserts, linkIn, executor,
                   inflight>>

(* A properties dict as a listing returns it: the id and the _self link    *)
(* the service assigned; the link functions read only its id.              *)
PropertiesRef(id, self_link) == [kind |-> "dict", id |-> id, link |-> self_link]

(* prototype Container._document_link: a string is taken as the link *)
Prototype_document_link(item_or_link) ==
    IF item_or_link.kind = "str" THEN item_or_link.id ELSE item_or_link.link

(* The ways a caller can name the database: its id, its properties dict, *)
(* or the Database object built for the id.                              *)
DatabaseArgs(id) ==
    {StrRef(id),
     PropertiesRef(id, SelfLink(Database_database_link(id))),
     ObjRef("Database", id, Database_database_link(id))}

(* The container by id, by properties dict, or as a Container object;    *)
(* the object was built from one of the DatabaseArgs of its owner, which *)
(* is this database or another one (TheDatabase).                        *)
ContainerArgs(database_id, id) ==
    LET named == Database_database_link(database_id) \o S_colls \o id
    IN {[ref |-> StrRef(id), owner |-> StrRef(database_id)],
        [ref |-> PropertiesRef(id, SelfLink(named)), owner |-> StrRef(database_id)]}
       \cup {[ref |-> ObjRef("Container", id, Container_collection_link(o, id)),
               owner |-> o] : o \in DatabaseArgs(database_id) \cup {TheDatabase}}

ItemArgs(collection_link, id) ==
    {StrRef(id),
     ObjRef("Item", id,
            SelfLink(Container_get_document_link(collection_link, StrRef(id))))}

(* One resolution of the three references: Database(id) resolves the     *)
(* container, the Container so named resolves the item. No link function *)
(* has a raise statement, so the resolution records no failure.          *)
resolve_links ==
    /\ linkOut = None
    /\ \E database \in DatabaseArgs(linkIn.database),
          container \in ContainerArgs(linkIn.database, linkIn.container) :
          LET database_link == Database_database_link(linkIn.database)
              collection_link == Database_get_container_link(database_link, container.ref)
          IN \E item \in ItemArgs(collection_link, linkIn.item) :
                LET links == [database |-> CosmosClient_get_database_link(database),
                              container |-> collection_link,
                              document |-> Container_get_document_link(collection_link, item)]
                IN linkOut' = Some([kind |-> "ref",
                                    first |-> links,
                                    second |-> links,
                                    database |-> database,
                                    container |-> container.ref,
                                    owner |-> container.owner,
                                    item |-> item,
                                    prototype_document |-> Prototype_document_link(item),
                                    failure |-> None])
    /\ UNCHANGED <<server, last_response_headers, session_token, client_session_token,
                   pending_query, lastCall, created, upserts, linkIn, executor,
                   inflight>>

NextLink == build_links \/ resolve_links

SpecLink == InitLink /\ [][NextLink]_vars

-----------------------------------------------------------------------------
(* Properties *)

(* The option set the last call handed to Transport (empty when it handed  *)
(* none).                                                                  *)
OptionsSent(c) ==
    IF c.treq # None /\ c.treq[1].options # None THEN c.treq[1].options[1]
    ELSE EmptyDict

(* How new an Optional session token is: 0 for None and for the empty token. *)
Rank(token) == IF token = None \/ token[1] = <<>> THEN 0 ELSE token[1][1]

(* C1: a query_items call given no partition key and not given             *)
(* enable_cross_partition_query=True fails with CrossPartitionRequired and *)
(* hands nothing to Transport.                                             *)
C1_CrossPartitionGuard ==
    (/\ lastCall.op = "query_items"
     /\ lastCall.args.partition_key = None
     /\ lastCall.args.enable_cross_partition_query # Some(TRUE))
    => (lastCall.failure = Some("CrossPartitionRequired") /\ lastCall.treq = None)

(* C1, the case: such a query_items call returned normally, with QueryItems *)
(* handed to Transport.                                                     *)
C1_QueryWentOut ==
    /\ lastCall.op = "query_items"
    /\ GivenParams(lastCall.args) = {}
    /\ lastCall.failure = None
    /\ lastCall.treq # None
    /\ lastCall.treq[1].rpc = "QueryItems"
    /\ pending_query # None

(* C2: a create_item or create_container of a link that a successful create *)
(* made (and nothing deleted since) leaves every stored resource as it was, *)
(* and, unless Transport failed for an unrelated reason, fails with         *)
(* HTTPFailure(409).                                                        *)
C2_SecondCreateAlreadyExists ==
    [][(lastCall'.op \in {"create_item", "create_container"}
            /\ lastCall'.target \in created)
        => (/\ server' = server
            /\ (lastCall'.fault = None => lastCall'.failure = Some(AlreadyExists)))]_vars

(* C2, the case: a second create_item of a created id, with another        *)
(* payload, failed with 409 and the stored item is still the first one.    *)
C2_SecondCreateRefused ==
    /\ lastCall.op = "create_item"
    /\ lastCall.failure = Some(AlreadyExists)
    /\ lastCall.target \in created
    /\ lastCall.target \in DOMAIN server
    /\ server[lastCall.target] # lastCall.treq[1].body[1]

(* C3: upsert_item never fails with HTTPFailure(409), and a get_item of a  *)
(* link whose last two writes were successful upserts returns the body of  *)
(* the second one (unless Transport failed for an unrelated reason).       *)
C3_UpsertTwiceThenGet ==
    /\ (lastCall.op = "upsert_item" => lastCall.failure # Some(AlreadyExists))
    /\ (/\ lastCall.op = "get_item"
        /\ lastCall.fault = None
        /\ lastCall.target \in DOMAIN upserts
        /\ Len(upserts[lastCall.target]) = 2)
       => (/\ lastCall.failure = None
           /\ lastCall.ret = Some(upserts[lastCall.target][2]))

(* C3, the case: get_item after upserts of p1 and then p2 returned p2. *)
C3_GotSecondPayload ==
    /\ lastCall.op = "get_item"
    /\ lastCall.target \in DOMAIN upserts
    /\ Len(upserts[lastCall.target]) = 2
    /\ upserts[lastCall.target][1].v = "p1"
    /\ upserts[lastCall.target][2].v = "p2"
    /\ lastCall.ret = Some(upserts[lastCall.target][2])

(* C4: Container.session_token only advances: no call replaces it with an  *)
(* older token, an empty token or None (None and the empty token counting  *)
(* as the same absence of a token).                                        *)
C4_SessionTokenOnlyAdvances ==
    [][Rank(session_token') >= Rank(session_token)]_vars

(* C5: once Container.session_token holds a token, a get_item, list_items  *)
(* or query_items call given no session_token hands Transport options      *)
(* whose sessionToken is at least as new (calls that Transport failed for  *)
(* an unrelated reason aside).                                             *)
C5_ReadsCarryObservedToken ==
    [][(/\ lastCall'.op \in {"get_item", "list_items", "query_items"}
        /\ lastCall'.args.session_token = None
        /\ lastCall'.fault = None
        /\ Rank(session_token) > 0)
        => (/\ "sessionToken" \in DOMAIN OptionsSent(lastCall')
            /\ Rank(Some(OptionsSent(lastCall')["sessionToken"]))
                   >= Rank(session_token))]_vars

(* C6: after every successful response that carries a session token, to    *)
(* get, create, replace, upsert, delete, list or the fetch of a query,     *)
(* Container.session_token is at least as new as that token.               *)
C6_EveryResponseUpdatesToken ==
    [][(/\ lastCall'.op \in {"get_item", "create_item", "replace_item", "upsert_item",
                             "delete_item", "list_items", "iterate"}
        /\ lastCall'.failure = None
        /\ Rank(last_response_headers') > 0)
        => Rank(session_token') >= Rank(last_response_headers')]_vars

(* The keyword options the caller set: given a value other than None, the  *)
(* empty str and the empty dict.                                           *)
SetParams(a) ==
    {p \in GivenParams(a) :
        /\ p \in {"consistency_level", "partition_key", "session_token"} => a[p][1] # <<>>
        /\ p \in {"initial_headers", "access_condition"} => a[p][1] # {}}

(* The keyword options the caller gave that the request carries with the   *)
(* value given, in its option set or as the partition_key of QueryItems.   *)
Carried(c, p) ==
    \/ /\ OptionKey(p) \in DOMAIN OptionsSent(c)
       /\ OptionsSent(c)[OptionKey(p)] = c.args[p][1]
    \/ /\ p = "partition_key"
       /\ c.treq # None
       /\ c.treq[1].partition_key = c.args[p]

(* The calls of the Container object, whose session default is the token   *)
(* it tracks.                                                              *)
ContainerOps ==
    {"get_item", "list_items", "query_items", "replace_item", "upsert_item",
     "create_item", "delete_item"}

HasSessionDefault(op, tracked) == op \in ContainerOps /\ Rank(tracked) > 0

(* C7 as stated: every key of the option set handed to Transport is the    *)
(* key of an option the caller gave (the facade keeps no session default   *)
(* but the tracked session token).                                         *)
C7_NoUnsetOptionSent ==
    \A k \in DOMAIN OptionsSent(lastCall) :
        \/ \E p \in GivenParams(lastCall.args) : OptionKey(p) = k
        \/ k = "sessionToken" /\ HasSessionDefault(lastCall.op, session_token)

(* C7, amended: every key of the option set handed to Transport is the key *)
(* of an option the caller gave and holds the value given, or it is        *)
(* disableIdGeneration, True, on create_item or replace_item.              *)
C7_OnlyGivenOptionsOrDisableIdGeneration ==
    \A k \in DOMAIN OptionsSent(lastCall) :
        \/ \E p \in GivenParams(lastCall.args) :
              OptionKey(p) = k /\ OptionsSent(lastCall)[k] = lastCall.args[p][1]
        \/ /\ k = "disableIdGeneration"
           /\ lastCall.op \in {"create_item", "replace_item"}
           /\ OptionsSent(lastCall)[k] = TRUE

(* C7, the case: replace_item given two options handed Transport exactly   *)
(* those two and disableIdGeneration.                                      *)
C7_ReplaceSentGivenOptions ==
    /\ lastCall.op = "replace_item"
    /\ GivenParams(lastCall.args) = {"session_token", "populate_query_metrics"}
    /\ DOMAIN OptionsSent(lastCall)
           = {"disableIdGeneration", "sessionToken", "populateQueryMetrics"}

(* C8: a call that reaches Transport (and that Transport does not fail for *)
(* an unrelated reason) carries every option the caller set, with the      *)
(* value given; a call on the container given no session_token    *)
(* carries the tracked session token when there is one; the key of an      *)
(* option with neither is not sent.                                        *)
C8_ExplicitThenDefaultThenOmitted ==
    [][(lastCall'.treq # None /\ lastCall'.fault = None) =>
        \A p \in ParamNames :
            LET default == p = "session_token"
                               /\ HasSessionDefault(lastCall'.op, session_token)
            IN /\ p \in SetParams(lastCall'.args) => Carried(lastCall', p)
               /\ (lastCall'.args[p] = None /\ default)
                      => (/\ "sessionToken" \in DOMAIN OptionsSent(lastCall')
                          /\ Some(OptionsSent(lastCall')["sessionToken"]) = session_token)
               /\ (lastCall'.args[p] = None /\ ~default)
                      => OptionKey(p) \notin DOMAIN OptionsSent(lastCall')]_vars

(* C9: every option the caller set is a key of the option set handed to    *)
(* Transport (or the partition_key of QueryItems), or the call failed with *)
(* nothing handed to Transport (calls that Transport failed for an         *)
(* unrelated reason aside).                                                *)
C9_NoOptionDropped ==
    \A p \in SetParams(lastCall.args) :
        \/ lastCall.fault # None
        \/ OptionKey(p) \in DOMAIN OptionsSent(lastCall)
        \/ p = "partition_key" /\ lastCall.treq # None
              /\ lastCall.treq[1].partition_key # None
        \/ lastCall.treq = None /\ lastCall.failure # None

(* C9, the case: upsert_item given a session_token reached Transport with  *)
(* no option set.                                                          *)
C9_UpsertDroppedOptions ==
    /\ lastCall.op = "upsert_item"
    /\ lastCall.args.session_token = Some(<<1>>)
    /\ lastCall.failure = None
    /\ lastCall.treq # None
    /\ DOMAIN OptionsSent(lastCall) = {}

(* C10: for valid database, container and item ids the links built by two  *)
(* calls with the same ids are equal, and no other valid ids give the same *)
(* database link, container link or item link.                             *)
C10_LinksDeterministicInjective ==
    (/\ linkOut # None
     /\ linkOut[1].kind \in {"str", "dict"}
     /\ ValidId(linkIn.database) /\ ValidId(linkIn.container) /\ ValidId(linkIn.item))
    => /\ linkOut[1].first = linkOut[1].second
       /\ \A d \in ValidIds, c \in ValidIds, i \in ValidIds, kind \in {"str", "dict"} :
             LET other == LinksOf(d, c, i, kind)
                 mine == linkOut[1].first
             IN /\ other.database = mine.database => d = linkIn.database
                /\ other.container = mine.container
                       => (d = linkIn.database /\ c = linkIn.container)
                /\ other.document = mine.document
                       => (d = linkIn.database /\ c = linkIn.container
                           /\ i = linkIn.item)

(* C10, the case: the links of database a, container aa, item a are built. *)
C10_LinksBuilt ==
    /\ linkOut # None
    /\ linkOut[1].kind \in {"str", "dict"}
    /\ linkIn = [database |-> <<"a">>, container |-> <<"a", "a">>, item |-> <<"a">>]
    /\ linkOut[1].first.container = S_dbs \o <<"a">> \o S_colls \o <<"a", "a">>
    /\ linkOut[1].first.document
           = S_dbs \o <<"a">> \o S_colls \o <<"a", "a">> \o S_docs \o <<"a">>

-----------------------------------------------------------------------------
(* The query executor behind the iterator of query_items: the pages of    *)
(* the partitions are fetched by Transport calls that may be in flight    *)
(* together, buffered per partition and merged by the order key.          *)

Finished(e, p) ==
    e.fetched[p] = PagesToFetch(e.layout, p) /\ e.buffer[p] = <<>> /\ ~e.inflight[p]

(* draining whatever is buffered, a partition being fetched or not *)
M_Ready(e) == \E p \in Partitions : e.buffer[p] # <<>> \/ Finished(e, p)

(* every partition has a buffered item or has delivered its final page *)
Ready(e) == \A p \in Partitions : e.buffer[p] # <<>> \/ Finished(e, p)

Phase(e) == IF Ready(e) THEN "Draining" ELSE "Fetching"

(* the partition whose buffered head comes first: by order key, then by  *)
(* partition                                                             *)
HeadPartition(e) ==
    LET full == {p \in Partitions : e.buffer[p] # <<>>}
    IN CHOOSE p \in full : \A q \in full \ {p} :
          \/ OrderKey(Head(e.buffer[p])) < OrderKey(Head(e.buffer[q]))
          \/ /\ OrderKey(Head(e.buffer[p])) = OrderKey(Head(e.buffer[q]))
             /\ PartitionRank(p) < PartitionRank(q)

QueryFrame ==
    UNCHANGED <<server, session_token, client_session_token, lastCall, created,
                upserts, pending_query, linkIn, linkOut, inflight>>

QueryFailed(partition, cause) == Some([partition |-> partition, cause |-> cause])

CrossPartitionRequired == "CrossPartitionRequired"
StalePartitionMap == "StalePartitionMap"

(* a plan that hands the query to the caller before anything is fetched *)
M_plan ==
    /\ executor # None
    /\ executor[1].state = "Planning"
    /\ executor' = Some([executor[1] EXCEPT !.state = "Draining"])
    /\ UNCHANGED last_response_headers
    /\ QueryFrame

(* Planning: without a partition key the target set is every partition   *)
(* of the container if cross partition execution is enabled; otherwise   *)
(* the query fails with CrossPartitionRequired and nothing is fetched.   *)
plan ==
    /\ executor # None
    /\ executor[1].state = "Planning"
    /\ IF lastCall.args.enable_cross_partition_query = Some(TRUE)
       THEN executor' = Some([executor[1] EXCEPT !.state = "Fetching"])
       ELSE executor' = Some([executor[1] EXCEPT
                                 !.state = "Failed",
                                 !.error = QueryFailed("", CrossPartitionRequired)])
    /\ UNCHANGED last_response_headers
    /\ QueryFrame

(* the call issued whether the caller abandoned the iterator or not *)
M_fetch_issue(p) ==
    /\ executor # None
    /\ LET e == executor[1]
       IN /\ e.state \in {"Fetching", "Draining"}
          /\ ~e.inflight[p]
          /\ e.buffer[p] = <<>>
          /\ e.fetched[p] < PagesToFetch(e.layout, p)
          /\ executor' = Some([e EXCEPT !.inflight[p] = TRUE,
                                        !.calls = @ + 1,
                                        !.state = "Fetching"])
    /\ UNCHANGED last_response_headers
    /\ QueryFrame

(* One query-page call for a partition whose buffer is used up and whose *)
(* continuation is not empty.                                            *)
fetch_issue(p) ==
    /\ executor # None
    /\ LET e == executor[1]
       IN /\ e.state \in {"Fetching", "Draining"}
          /\ ~e.abandoned
          /\ ~e.inflight[p]
          /\ e.buffer[p] = <<>>
          /\ e.fetched[p] < PagesToFetch(e.layout, p)
          /\ executor' = Some([e EXCEPT !.inflight[p] = TRUE,
                                        !.calls = @ + 1,
                                        !.state = "Fetching"])
    /\ UNCHANGED last_response_headers
    /\ QueryFrame

(* the result of a call is dropped: the caller left, or the query failed *)
Dropped(e) == e.abandoned \/ e.state = "Failed"

(* a failed call that is dropped, the page being asked for again *)
M_fetch_resolve(p, resp) ==
    /\ executor # None
    /\ LET e == executor[1]
           page == Page(e.layout, p, e.fetched[p] + 1)
           landed == [e EXCEPT !.inflight[p] = FALSE,
                               !.buffer[p] = page,
                               !.fetched[p] = @ + 1,
                               !.charged = @ + PageCharge(page),
                               !.last_charge = PageCharge(page)]
       IN /\ e.inflight[p]
          /\ IF resp.fault # None
             THEN /\ executor' = Some([e EXCEPT !.inflight[p] = FALSE])
                  /\ UNCHANGED last_response_headers
             ELSE /\ last_response_headers' = resp.headers
                  /\ IF Dropped(e)
                     THEN executor' = Some([e EXCEPT !.inflight[p] = FALSE,
                                                    !.last_charge = PageCharge(page)])
                     ELSE executor' = Some([landed EXCEPT !.state = Phase(landed)])
    /\ QueryFrame

(* The call in flight for the partition resolves: a failure ends the     *)
(* query with QueryFailed for the partition, a page fills the            *)
(* partition's buffer; after abandonment or failure the result is        *)
(* dropped.                                                              *)
fetch_resolve(p, resp) ==
    /\ executor # None
    /\ LET e == executor[1]
           page == Page(e.layout, p, e.fetched[p] + 1)
           landed == [e EXCEPT !.inflight[p] = FALSE,
                               !.buffer[p] = page,
                               !.fetched[p] = @ + 1,
                               !.charged = @ + PageCharge(page),
                               !.last_charge = PageCharge(page)]
       IN /\ e.inflight[p]
          /\ IF resp.fault # None
             THEN /\ executor' = Some([e EXCEPT !.inflight[p] = FALSE,
                                                !.state = IF Dropped(e) THEN e.state
                                                          ELSE "Failed",
                                                !.error = IF Dropped(e) THEN e.error
                                                          ELSE QueryFailed(p, resp.fault[1])])
                  /\ UNCHANGED last_response_headers
             ELSE /\ last_response_headers' = resp.headers
                  /\ IF Dropped(e)
                     THEN executor' = Some([e EXCEPT !.inflight[p] = FALSE,
                                                    !.last_charge = PageCharge(page)])
                     ELSE executor' = Some([landed EXCEPT !.state = Phase(landed)])
    /\ QueryFrame

(* an exhausted iterator that starts over on the next call *)
M_next_item ==
    /\ executor # None
    /\ LET e == executor[1]
       IN /\ ~e.abandoned
          /\ \/ /\ e.state = "Exhausted"
                /\ executor' = Some([e EXCEPT !.state = "Fetching",
                                              !.fetched = [p \in Partitions |-> 0]])
             \/ /\ e.state = "Draining"
                /\ \A p \in Partitions : Finished(e, p)
                /\ executor' = Some([e EXCEPT !.state = "Exhausted", !.stops = 1])
             \/ /\ e.state = "Draining"
                /\ \E p \in Partitions : e.buffer[p] # <<>>
                /\ LET p == HeadPartition(e)
                       taken == [e EXCEPT !.buffer[p] = Tail(@),
                                          !.yielded = Append(@, Head(e.buffer[p]))]
                   IN executor' = Some([taken EXCEPT !.state = Phase(taken)])
    /\ UNCHANGED last_response_headers
    /\ QueryFrame

(* next(iterator): the item that comes first among the buffered heads,   *)
(* or StopIteration once every partition has delivered its final page;   *)
(* while a partition is being fetched the call waits.                    *)
next_item ==
    /\ executor # None
    /\ LET e == executor[1]
       IN /\ ~e.abandoned
          /\ \/ /\ e.state = "Exhausted"
                /\ e.stops < MaxStops
                /\ executor' = Some([e EXCEPT !.stops = @ + 1])
             \/ /\ e.state = "Draining"
                /\ \A p \in Partitions : Finished(e, p)
                /\ executor' = Some([e EXCEPT !.state = "Exhausted", !.stops = 1])
             \/ /\ e.state = "Draining"
                /\ \E p \in Partitions : e.buffer[p] # <<>>
                /\ LET p == HeadPartition(e)
                       taken == [e EXCEPT !.buffer[p] = Tail(@),
                                          !.yielded = Append(@, Head(e.buffer[p]))]
                   IN executor' = Some([taken EXCEPT !.state = Phase(taken)])
    /\ UNCHANGED last_response_headers
    /\ QueryFrame

(* The caller stops iterating: the buffers are released. *)
abandon ==
    /\ executor # None
    /\ LET e == executor[1]
       IN /\ e.state \in {"Fetching", "Draining"}
          /\ ~e.abandoned
          /\ executor' = Some([e EXCEPT !.abandoned = TRUE,
                                        !.buffer = [p \in Partitions |-> <<>>]])
    /\ UNCHANGED last_response_headers
    /\ QueryFrame

(* A cross partition query over every layout of the items, issued after  *)
(* an earlier response whose headers carry a session token and a charge. *)
EarlierCharges == {1, PageSize + 1}

InitQuery ==
    /\ server = ServerWithContainer
    /\ last_response_headers = Some(<<1>>)
    /\ session_token = Some(<<1>>)
    /\ client_session_token = None
    /\ pending_query = None
    /\ lastCall = NoCall
    /\ created = {} /\ upserts = EmptyDict
    /\ NoLinks
    /\ NoThreads
    /\ executor \in {Some(NewExecutor(layout, charge)) :
                         layout \in Layouts, charge \in EarlierCharges}

CrossPartitionArgs ==
    {a \in ArgsOf({"enable_cross_partition_query"}) :
        a.enable_cross_partition_query = Some(TRUE)}

(* a query without a partition key, cross partition execution enabled,   *)
(* disabled or not mentioned                                             *)
QueryArgs == ArgsOf({"enable_cross_partition_query"})

NextQuery ==
    \E resp \in Responses({Some(<<1>>)}) :
        \/ executor[1].state = "Idle" /\ \E a \in QueryArgs : query_items(a)
        \/ plan
        \/ \E p \in Partitions : fetch_issue(p)
        \/ \E p \in Partitions : fetch_resolve(p, resp)
        \/ next_item
        \/ abandon

SpecQuery == InitQuery /\ [][NextQuery]_vars

-----------------------------------------------------------------------------
(* The query of a container that is being split: a page call can be      *)
(* answered with StalePartitionMap.                                      *)

MaxReplans == 2

(* a plan fetched again once more than the bound allows *)
M_fetch_stale(p) ==
    /\ executor # None
    /\ LET e == executor[1]
       IN /\ e.inflight[p]
          /\ IF Dropped(e)
             THEN executor' = Some([e EXCEPT !.inflight[p] = FALSE])
             ELSE IF e.replans <= MaxReplans
                  THEN executor' = Some([e EXCEPT !.inflight[p] = FALSE,
                                                 !.replans = @ + 1])
                  ELSE executor' = Some([e EXCEPT
                                            !.inflight[p] = FALSE,
                                            !.state = "Failed",
                                            !.error = QueryFailed(p, StalePartitionMap)])
    /\ UNCHANGED last_response_headers
    /\ QueryFrame

(* The call in flight for the partition is answered with                 *)
(* StalePartitionMap: the plan is fetched again and the page is asked    *)
(* for again, the caller seeing nothing, up to MaxReplans times in a     *)
(* query; after that the query ends with QueryFailed.                    *)
fetch_stale(p) ==
    /\ executor # None
    /\ LET e == executor[1]
       IN /\ e.inflight[p]
          /\ IF Dropped(e)
             THEN executor' = Some([e EXCEPT !.inflight[p] = FALSE])
             ELSE IF e.replans < MaxReplans
                  THEN executor' = Some([e EXCEPT !.inflight[p] = FALSE,
                                                 !.replans = @ + 1])
                  ELSE executor' = Some([e EXCEPT
                                            !.inflight[p] = FALSE,
                                            !.state = "Failed",
                                            !.error = QueryFailed(p, StalePartitionMap)])
    /\ UNCHANGED last_response_headers
    /\ QueryFrame

(* the items 1 and 2 lie in the first partition *)
SplitLayouts == {layout \in Layouts : layout[1] = "p1" /\ layout[2] = "p1"}

InitStale ==
    /\ server = ServerWithContainer
    /\ last_response_headers = Some(<<1>>)
    /\ session_token = Some(<<1>>)
    /\ client_session_token = None
    /\ pending_query = None
    /\ lastCall = NoCall
    /\ created = {} /\ upserts = EmptyDict
    /\ NoLinks
    /\ NoThreads
    /\ executor \in {Some(NewExecutor(layout, 1)) : layout \in SplitLayouts}

NextStale ==
    \E resp \in Responses({Some(<<1>>)}) :
        \/ executor[1].state = "Idle" /\ \E a \in CrossPartitionArgs : query_items(a)
        \/ plan
        \/ \E p \in Partitions : fetch_issue(p)
        \/ \E p \in Partitions : fetch_resolve(p, resp)
        \/ \E p \in Partitions : fetch_stale(p)
        \/ next_item
        \/ abandon

SpecStale == InitStale /\ [][NextStale]_vars

-----------------------------------------------------------------------------
(* Client of src/prototype/client.py (src/mock_two/client.py has the same *)
(* create_database and get_database), next to CosmosClient.               *)

(* a create that reads the database back whatever the failure was *)
M_try_create_database(id, fail_if_exists, resp, resp2) ==
    LET body == [id |-> id]
        result == Respond(TransportCreate(server, <<>>, Seg_dbs, body), resp)
        read == Respond(TransportRead(server, S_dbs \o id), resp2)
    IN IF result.failure = None
       THEN [t |-> result, calls |-> <<"CreateDatabase">>, first |-> result.failure]
       ELSE [t |-> read, calls |-> <<"CreateDatabase", "ReadDatabase">>,
             first |-> result.failure]

(* try: CreateDatabase; except HTTPFailure: raise only if fail_if_exists  *)
(* and the status is 409; otherwise return self.get_database(id).         *)
Client_try_create_database(id, fail_if_exists, resp, resp2) ==
    LET body == [id |-> id]
        result == Respond(TransportCreate(server, <<>>, Seg_dbs, body), resp)
        read == Respond(TransportRead(server, S_dbs \o id), resp2)
    IN IF result.failure = None
       THEN [t |-> result, calls |-> <<"CreateDatabase">>, first |-> result.failure]
       ELSE IF fail_if_exists /\ result.failure = Some(AlreadyExists)
            THEN [t |-> result, calls |-> <<"CreateDatabase">>, first |-> result.failure]
            ELSE [t |-> read, calls |-> <<"CreateDatabase", "ReadDatabase">>,
                  first |-> result.failure]

(* The outcome of a create_database call given fail_if_exists. *)
DoneCreate(op, id, fail_if_exists, req, t, calls, first) ==
    LET call == [op |-> op, args |-> NoArgs, treq |-> req, target |-> t.target,
                 fault |-> None, failure |-> t.failure, ret |-> t.data,
                 ret_headers |-> None, id |-> id, fail_if_exists |-> fail_if_exists,
                 existed |-> S_dbs \o id \in DOMAIN server,
                 untouched |-> t.server = server, calls |-> calls, first |-> first]
    IN /\ server' = t.server
       /\ last_response_headers' = t.headers
       /\ lastCall' = call
       /\ created' = Created(call, t.server)
       /\ upserts' = Upserts(call, t.server)
       /\ UNCHANGED <<session_token, client_session_token, pending_query, linkIn,
                      linkOut, executor, inflight>>

Client_create_database(id, fail_if_exists, resp, resp2) ==
    LET o == Client_try_create_database(id, fail_if_exists, resp, resp2)
    IN DoneCreate("Client.create_database", id, fail_if_exists,
                  Request("CreateDatabase", <<>>, None, Some([id |-> id]), None),
                  o.t, o.calls, o.first)

(* the arguments of a call, the id it was given among them *)
WithId(a, id) == ("id" :> id) @@ a

Client_get_database(id, resp) ==
    LET database_link == S_dbs \o id
        t == Respond(TransportRead(server, database_link), resp)
    IN Same("Client.get_database", WithId(NoArgs, id),
            Request("ReadDatabase", database_link, None, None, None), t, resp, None)

Client_delete_database(id, resp) ==
    LET database_link == S_dbs \o id
        t == Respond(TransportDelete(server, database_link), resp)
    IN Same("Client.delete_database", WithId(NoArgs, id),
            Request("DeleteDatabase", database_link, None, None, None), t, resp, None)

(* prototype Database.__init__: self.database_link = f"/dbs/{self.id}" *)
Prototype_database_link(id) == <<"/">> \o S_dbs \o id

(* prototype Container.__init__: getattr(database, "database_link",      *)
(* f"dbs/{database}"), then f"{database_link}/colls/{self.id}"           *)
Prototype_collection_link(database, id) ==
    (IF database.kind = "Database" THEN database.link ELSE S_dbs \o database.id)
        \o S_colls \o id

PrototypeDatabase(id) == ObjRef("Database", id, Prototype_database_link(id))

PrototypeContainer(database, id) ==
    ObjRef("Container", id, Prototype_collection_link(database, id))

(* prototype Database.create_container of the Database object of         *)
(* TheDatabaseId                                                         *)
Database_create_container(id, resp) ==
    LET database == PrototypeDatabase(TheDatabaseId)
        definition == ("id" :> id)
        t == Respond(TransportCreate(server, database.link, Seg_colls, definition), resp)
    IN Same("Database.create_container", WithId(NoArgs, id),
            Request("CreateContainer", database.link, None, Some(definition), None),
            IF t.failure = None
            THEN [t EXCEPT !.data = Some(PrototypeContainer(database, t.data[1]["id"]))]
            ELSE t,
            resp, None)

(* prototype Database.list_containers (mock_two Database.list_collections *)
(* alike): with a query or without, ReadContainers is called with the     *)
(* database link alone and every container of the database is listed, in  *)
(* the order the service chooses.                                         *)
Database_list_containers(database, query, resp) ==
    LET t == Respond(TransportFeed(server, database.link, Seg_colls), resp)
    IN IF t.failure # None THEN t
       ELSE [t EXCEPT !.data = Some({PrototypeContainer(database, container["id"]) :
                                        container \in t.data[1]})]

(* prototype Database.get_container (mock_two Database.get_collection    *)
(* alike): next(containers) of the listing for the query on the id, or    *)
(* ValueError when the listing is empty.                                  *)
Database_get_container(id, resp) ==
    LET database == PrototypeDatabase(TheDatabaseId)
        containers == Database_list_containers(database, Some(id), resp)
        request == Request("ReadContainers", database.link, None, None, None)
    IN IF containers.failure # None
       THEN Same("Database.get_container", WithId(NoArgs, id), request, containers,
                 resp, None)
       ELSE IF containers.data[1] = {}
            THEN Same("Database.get_container", WithId(NoArgs, id), request,
                      [containers EXCEPT !.failure = Some("ValueError"), !.data = None],
                      resp, None)
            ELSE \E first \in containers.data[1] :
                    Same("Database.get_container", WithId(NoArgs, id), request,
                         [containers EXCEPT !.data = Some(first)], resp, None)

(* collection_link = getattr(container, "collection_link",               *)
(*                           f"{self.database_link}/col/{container}")    *)
Database_delete_container(container, resp) ==
    LET database == PrototypeDatabase(TheDatabaseId)
        collection_link == IF container.kind = "Container" THEN container.link
                           ELSE database.link \o <<"/", "c", "o", "l", "/">>
                                    \o container.id
        t == Respond(TransportDelete(server, collection_link), resp)
    IN Same("Database.delete_container",
            WithId(NoArgs, container.id) @@ [given |-> container.kind],
            Request("DeleteContainer", collection_link, None, None, None), t, resp, None)

(* collection_link = getattr(container, "collection_link",               *)
(*                           f"{self.database_link}/cols/{container}")   *)
Database_get_container_properties(container, resp) ==
    LET database == PrototypeDatabase(TheDatabaseId)
        collection_link == IF container.kind = "Container" THEN container.link
                           ELSE database.link \o <<"/", "c", "o", "l", "s", "/">>
                                    \o container.id
        t == Respond(TransportRead(server, collection_link), resp)
    IN Same("Database.get_container_properties",
            WithId(NoArgs, container.id) @@ [given |-> container.kind],
            Request("ReadContainer", collection_link, None, None, None), t, resp, None)

(* container_id = getattr(container, "id", container); the parameters    *)
(* with int(default_ttl);                                                *)
(* collection_link = f"{self.database_link}/colls/{container_id}"        *)
Database_set_container_properties(container, default_ttl, resp) ==
    LET database == PrototypeDatabase(TheDatabaseId)
        container_id == container.id
        seconds == Python_int(default_ttl)
        parameters == IF seconds.failure = None
                      THEN ("defaultTtl" :> seconds.value[1]) @@ ("id" :> container_id)
                      ELSE ("id" :> container_id)
        collection_link == database.link \o S_colls \o container_id
        t == Respond(TransportReplace(server, collection_link, parameters), resp)
        a == WithTtl(WithId(NoArgs, container.id), default_ttl)
                 @@ [given |-> container.kind]
    IN IF seconds.failure # None
       THEN Same("Database.set_container_properties", a, None,
                 Raised(seconds.failure[1]), resp, None)
       ELSE Same("Database.set_container_properties", a,
                 Request("ReplaceContainer", collection_link, None, Some(parameters),
                         None),
                 t, resp, None)

(* CosmosClient.create_database called as the examples call it: its      *)
(* signature has no fail_if_exists parameter and no **kwargs, the call    *)
(* raises TypeError before the body runs.                                 *)
create_database_fail_if_exists(id, fail_if_exists) ==
    DoneCreate("create_database", id, fail_if_exists, None, Raised("TypeError"),
               <<>>, None)

InitCreate ==
    /\ server \in {EmptyDict, ServerWithContainer}
    /\ last_response_headers = None
    /\ session_token = None
    /\ client_session_token = None
    /\ pending_query = None
    /\ lastCall = NoCall
    /\ NoHistory
    /\ NoLinks
    /\ NoThreads

NextCreate ==
    \E resp \in Responses({Some(<<1>>)}), id \in CrudIds :
        \/ \E fail_if_exists \in BOOLEAN, resp2 \in Responses({Some(<<1>>)}) :
              Client_create_database(id, fail_if_exists, resp, resp2)
        \/ Client_get_database(id, resp)
        \/ Client_delete_database(id, resp)
        \/ \E fail_if_exists \in BOOLEAN : create_database_fail_if_exists(id, fail_if_exists)
        \/ create_database(id, NoArgs, resp)
        \/ get_database(StrRef(id), NoArgs, resp)
        \/ delete_database(StrRef(id), NoArgs, resp)
        \/ \E body \in ItemBodies({id}, {"p1"}) : create_item(body, NoArgs, resp)
        \/ \E body \in ItemBodies({id}, {"p1"}) : upsert_item(body, NoArgs, resp)
        \/ \E body \in ItemBodies({id}, {"p1"}) :
              replace_item(StrRef(id), body, NoArgs, resp)
        \/ get_item(id, NoArgs, resp)
        \/ delete_item(StrRef(id), NoArgs, resp)

SpecCreate == InitCreate /\ [][NextCreate]_vars

-----------------------------------------------------------------------------
(* The containers of one prototype Database, named by id or by the       *)
(* Container object a call returned.                                     *)

InitContainers ==
    /\ server = ServerWithContainer
    /\ last_response_headers = None
    /\ session_token = None
    /\ client_session_token = None
    /\ pending_query = None
    /\ lastCall = NoCall
    /\ NoHistory
    /\ NoLinks
    /\ NoThreads

NextContainers ==
    \E resp \in Responses({Some(<<1>>)}), id \in CrudIds :
        \/ Database_create_container(id, resp)
        \/ Database_get_container(id, resp)
        \/ Client_get_database(id, resp)
        \/ Client_delete_database(id, resp)
        \/ \E container \in {StrRef(id),
                              PrototypeContainer(PrototypeDatabase(TheDatabaseId), id)} :
              \/ Database_delete_container(container, resp)
              \/ Database_get_container_properties(container, resp)
              \/ \E default_ttl \in {None, Some(PyInt(MaxNum))} :
                    Database_set_container_properties(container, default_ttl, resp)

SpecContainers == InitContainers /\ [][NextContainers]_vars

-----------------------------------------------------------------------------
(* Threads sharing one client and one Container                            *)
(*                                                                         *)
(* No method takes a lock, and client_context.last_response_headers and    *)
(* Container.session_token are plain attributes shared by every caller.    *)
(* A thread can be switched out between any two statements of get_item     *)
(* and query_items, and within                                             *)
(*   self.session_token = headers.get("x-ms-session-token",                *)
(*                                    self.session_token)                  *)
(* between the load of self.session_token and the store.                   *)

MaxThreads == 2
Threads == 1..MaxThreads

IdleOperation ==
    [op |-> "", pc |-> "idle", response |-> None, headers |-> None, from |-> 0,
     default |-> None, failure |-> None, ret_headers |-> None]

(* The session token of the service only grows; a response carries the     *)
(* newest token, a newer one, or no x-ms-session-token header.             *)
ServiceHeaders(issued) ==
    {None} \cup {Some(<<n>>) : n \in {m \in 1..MaxToken : issued <= m /\ m <= issued + 1}}

TokenNumber(headers) == IF headers = None THEN 0 ELSE headers[1][1]

ConcurrentFrame ==
    UNCHANGED <<server, client_session_token, lastCall, created, upserts,
                pending_query, linkIn, linkOut, executor>>

Step(th, operation) ==
    [inflight EXCEPT !.thread = [@ EXCEPT ![th] = operation]]

(* result = self.client_context.ReadItem(document_link=doc_link, ...):     *)
(* the response replaces the client's last_response_headers.               *)
get_item_ReadItem(th, id, resp) ==
    /\ inflight.thread[th].pc = "idle"
    /\ LET doc_link == Container_get_document_link(self_collection_link, StrRef(id))
           t == Respond(TransportRead(server, doc_link), resp)
       IN IF t.failure # None
          THEN /\ inflight' = Step(th, [IdleOperation EXCEPT !.op = "get_item",
                                           !.pc = "done", !.failure = t.failure])
               /\ UNCHANGED last_response_headers
          ELSE /\ inflight' =
                     [Step(th, [IdleOperation EXCEPT !.op = "get_item",
                                   !.pc = "headers", !.response = Some(resp.headers)])
                         EXCEPT !.owner = th,
                                !.issued = IF resp.headers = None THEN @
                                           ELSE TokenNumber(resp.headers)]
               /\ last_response_headers' = resp.headers
    /\ UNCHANGED session_token
    /\ ConcurrentFrame

(* items = self.client_context.QueryItems(...): a lazy iterable, nothing   *)
(* is fetched and no response arrives in the call.                         *)
query_items_QueryItems(th) ==
    /\ inflight.thread[th].pc = "idle"
    /\ inflight' = Step(th, [IdleOperation EXCEPT !.op = "query_items",
                                                  !.pc = "headers"])
    /\ UNCHANGED <<last_response_headers, session_token>>
    /\ ConcurrentFrame

(* headers = self.client_context.last_response_headers *)
read_last_response_headers(th) ==
    /\ inflight.thread[th].pc = "headers"
    /\ inflight' =
          [Step(th, [inflight.thread[th] EXCEPT
                        !.pc = IF inflight.thread[th].op = "get_item"
                               THEN "default" ELSE "store",
                        !.headers = last_response_headers,
                        !.from = inflight.owner])
              EXCEPT !.observed = IF last_response_headers = None THEN @
                                  ELSE @ \cup {last_response_headers}]
    /\ UNCHANGED <<last_response_headers, session_token>>
    /\ ConcurrentFrame

(* the argument self.session_token of headers.get is loaded *)
get_item_load_session_token(th) ==
    /\ inflight.thread[th].pc = "default"
    /\ inflight' = Step(th, [inflight.thread[th] EXCEPT !.pc = "store",
                                                        !.default = session_token])
    /\ UNCHANGED <<last_response_headers, session_token>>
    /\ ConcurrentFrame

(* self.session_token = headers.get(...) is stored;                        *)
(* return Item(headers=headers, data=result)                               *)
get_item_store_session_token(th) ==
    /\ inflight.thread[th].pc = "store"
    /\ inflight.thread[th].op = "get_item"
    /\ session_token' = HeadersGet(inflight.thread[th].headers,
                                   inflight.thread[th].default)
    /\ inflight' = Step(th, [inflight.thread[th] EXCEPT
                                !.pc = "done",
                                !.ret_headers = Some(inflight.thread[th].headers)])
    /\ UNCHANGED last_response_headers
    /\ ConcurrentFrame

(* self.session_token = headers["x-ms-session-token"];                     *)
(* return QueryResultIterator(..., metadata=ResponseMetadata(headers))     *)
query_items_store_session_token(th) ==
    /\ inflight.thread[th].pc = "store"
    /\ inflight.thread[th].op = "query_items"
    /\ IF inflight.thread[th].headers = None
       THEN /\ inflight' = Step(th, [inflight.thread[th] EXCEPT
                                        !.pc = "done", !.failure = Some("KeyError")])
            /\ UNCHANGED session_token
       ELSE /\ session_token' = inflight.thread[th].headers
            /\ inflight' = Step(th, [inflight.thread[th] EXCEPT
                                        !.pc = "done",
                                        !.ret_headers = Some(inflight.thread[th].headers)])
    /\ UNCHANGED last_response_headers
    /\ ConcurrentFrame

AllDone == \A th \in Threads : inflight.thread[th].pc = "done"

(* Every thread has returned; the callers start the next operations. *)
join ==
    /\ AllDone
    /\ inflight' = [inflight EXCEPT !.thread = [th \in Threads |-> IdleOperation],
                                    !.owner = 0,
                                    !.before = session_token,
                                    !.observed = {}]
    /\ UNCHANGED <<last_response_headers, session_token>>
    /\ ConcurrentFrame

InitConcurrent ==
    /\ server = ServerWithItem
    /\ last_response_headers = None
    /\ session_token = None
    /\ client_session_token = None
    /\ pending_query = None
    /\ lastCall = NoCall
    /\ NoHistory
    /\ NoLinks
    /\ inflight = [thread |-> [th \in Threads |-> IdleOperation], owner |-> 0,
                   issued |-> 0, before |-> None, observed |-> {}]

NextConcurrent ==
    \/ \E th \in Threads :
          \/ \E id \in ItemIds, resp \in Responses(ServiceHeaders(inflight.issued)) :
                get_item_ReadItem(th, id, resp)
          \/ query_items_QueryItems(th)
          \/ read_last_response_headers(th)
          \/ get_item_load_session_token(th)
          \/ get_item_store_session_token(th)
          \/ query_items_store_session_token(th)
    \/ join

SpecConcurrent == InitConcurrent /\ [][NextConcurrent]_vars

-----------------------------------------------------------------------------
(* Link resolution over references *)

Resolved == linkOut # None /\ linkOut[1].kind = "ref"

IsProperPrefix(p, s) == IsPrefix(p, s) /\ Len(p) < Len(s)

(* C11: resolving links for a database, container or item id that is     *)
(* empty or contains "/" fails with InvalidIdentity.                     *)
C11_InvalidIdFailsWithInvalidIdentity ==
    (/\ Resolved
     /\ ~(ValidId(linkIn.database) /\ ValidId(linkIn.container) /\ ValidId(linkIn.item)))
    => linkOut[1].failure = Some("InvalidIdentity")

C13_LinksNestUnderOwner ==
    Resolved =>
        LET r == linkOut[1]
        IN /\ IsProperPrefix(CosmosClient_get_database_link(r.owner), r.first.container)
           /\ r.item.kind = "str" => IsProperPrefix(r.first.container, r.first.document)

(* C13, the case: a Container object built from the Database object of   *)
(* database "/" and an item id "a/" are resolved.                        *)
C13_NestedLinksBuilt ==
    /\ Resolved
    /\ linkIn = [database |-> <<"/">>, container |-> <<>>, item |-> <<"a", "/">>]
    /\ linkOut[1].container.kind = "Container"
    /\ linkOut[1].owner.kind = "Database"
    /\ linkOut[1].item.kind = "str"
    /\ linkOut[1].first.container = S_dbs \o <<"/">> \o S_colls
    /\ linkOut[1].first.document = S_dbs \o <<"/">> \o S_colls \o S_docs \o <<"a", "/">>

-----------------------------------------------------------------------------
(* The paged query *)

Querying == executor # None /\ executor[1].state # "Idle"

(* the items in the order a merge by order key, then partition, gives *)
RECURSIVE MergedFrom(_, _)
MergedFrom(layout, S) ==
    IF S = {} THEN <<>>
    ELSE LET first == CHOOSE i \in S : \A j \in S \ {i} :
                        \/ OrderKey(i) < OrderKey(j)
                        \/ /\ OrderKey(i) = OrderKey(j)
                           /\ PartitionRank(layout[i]) < PartitionRank(layout[j])
                        \/ /\ OrderKey(i) = OrderKey(j)
                           /\ layout[i] = layout[j]
                           /\ i < j
         IN <<first>> \o MergedFrom(layout, S \ {first})

FetchedPages(e) == e.fetched["p1"] + e.fetched["p2"] + e.fetched["p3"]

(* C14: over every layout of the items in the partitions and every       *)
(* interleaving of the page fetches, the items yielded are in order of   *)
(* the ORDER BY key, no item is yielded twice, and at exhaustion every   *)
(* item has been yielded exactly once.                                   *)
C14_OrderByMergeSortedOnce ==
    Querying =>
        LET y == executor[1].yielded
        IN /\ \A i, j \in 1..Len(y) : i < j => OrderKey(y[i]) <= OrderKey(y[j])
           /\ \A i, j \in 1..Len(y) : i # j => y[i] # y[j]
           /\ executor[1].state = "Exhausted" => Range(y) = Items

(* C14, the case: partition p1 serves the pages [1, 2] and [4], p2 the   *)
(* page [3], p3 an empty page; after 1 and 2 the merge waits for the     *)
(* second page of p1 although 3 is buffered, and the iterator is         *)
(* exhausted after 1, 2, 4, 3 (items 3 and 4 carry the same key, p1      *)
(* comes first).                                                         *)
C14_ThreePartitionsMerged ==
    /\ Querying
    /\ executor[1].layout = (1 :> "p1") @@ (2 :> "p1") @@ (3 :> "p2") @@ (4 :> "p1")
                               @@ [i \in Items |-> "p3"]
    /\ executor[1].state = "Exhausted"
    /\ executor[1].fetched["p1"] = 2
    /\ executor[1].yielded = <<1, 2, 4, 3>>

(* C15: once the iterator is exhausted the request charge in its         *)
(* metadata equals the sum of the charges of every page fetched.         *)
C15_MetadataChargeIsSumOfPages ==
    (Querying /\ executor[1].state = "Exhausted")
    => executor[1].metadata_charge = Some(executor[1].charged)

(* C16: once the caller has abandoned the iterator no Transport call is  *)
(* issued, and the result of a call in flight is dropped: nothing is     *)
(* buffered, counted or yielded.                                         *)
C16_NoCallAfterAbandon ==
    [][(Querying /\ executor[1].abandoned)
       => /\ executor'[1].abandoned
          /\ executor'[1].calls = executor[1].calls
          /\ executor'[1].buffer = [p \in Partitions |-> <<>>]
          /\ executor'[1].fetched = executor[1].fetched
          /\ executor'[1].charged = executor[1].charged
          /\ executor'[1].yielded = executor[1].yielded]_vars

(* C16, the case: the iterator was abandoned after a partial drain while *)
(* a call was in flight, and the call has resolved since.                *)
C16_InFlightResultDropped ==
    /\ Querying
    /\ executor[1].abandoned
    /\ executor[1].state # "Failed"
    /\ executor[1].yielded # <<>>
    /\ \A p \in Partitions : ~executor[1].inflight[p]
    /\ executor[1].calls > FetchedPages(executor[1])
    /\ last_response_headers = Some(<<1>>)

(* C20: the items come out in merge order, each once, and once the       *)
(* iterator is exhausted every further next() raises StopIteration:      *)
(* nothing more is yielded and no Transport call is issued.              *)
C20_ForwardOnly ==
    [][Querying
       => /\ IsPrefix(executor'[1].yielded,
                      MergedFrom(executor'[1].layout, Items))
          /\ IsPrefix(executor[1].yielded, executor'[1].yielded)
          /\ executor[1].state = "Exhausted"
                => /\ executor'[1].state = "Exhausted"
                   /\ executor'[1].yielded = executor[1].yielded
                   /\ executor'[1].calls = executor[1].calls
                   /\ executor'[1].fetched = executor[1].fetched]_vars

(* C20, the case: every item was yielded and next() was called MaxStops  *)
(* times after that.                                                     *)
C20_NextAfterExhaustion ==
    /\ Querying
    /\ executor[1].state = "Exhausted"
    /\ executor[1].stops = MaxStops
    /\ Len(executor[1].yielded) = MaxKey
    /\ executor[1].calls = FetchedPages(executor[1])

-----------------------------------------------------------------------------
(* Point operations and Transport *)

Called == lastCall.op # "init"

GivenFailIfExists == Called /\ "fail_if_exists" \in DOMAIN lastCall

(* the Transport calls the last facade call made, in order *)
TransportCalls(c) ==
    IF "calls" \in DOMAIN c THEN c.calls
    ELSE IF c.treq = None THEN <<>> ELSE <<c.treq[1].rpc>>

(* the 409 that create_database is asked to absorb *)
Absorbed(c) == ~c.fail_if_exists /\ c.first = Some(AlreadyExists)

C18_TransportFailureReachesCaller ==
    /\ (Called /\ "first" \notin DOMAIN lastCall /\ lastCall.fault # None)
           => lastCall.failure = lastCall.fault
    /\ (GivenFailIfExists /\ lastCall.first # None /\ ~Absorbed(lastCall))
           => lastCall.failure = lastCall.first

(* C18, the case: CreateDatabase fails with the 503 while fail_if_exists *)
(* is True, and the call returns the database as if it had succeeded.    *)
C18_FailureTurnedIntoSuccess ==
    /\ GivenFailIfExists
    /\ lastCall.fail_if_exists
    /\ lastCall.first = Some(TransportFailure)
    /\ lastCall.failure = None
    /\ lastCall.ret = Some([id |-> lastCall.id])

(* C19: when the database exists and Transport answers without a failure *)
(* of its own, create_database(id, fail_if_exists=False) returns the     *)
(* existing database and create_database(id, fail_if_exists=True) raises *)
(* the 409 and leaves the databases as they are.                         *)
C19_CreateOrGetExisting ==
    (/\ GivenFailIfExists
     /\ lastCall.existed
     /\ Some(TransportFailure) \notin {lastCall.first, lastCall.failure})
    => IF lastCall.fail_if_exists
       THEN lastCall.failure = Some(AlreadyExists) /\ lastCall.untouched
       ELSE lastCall.failure = None /\ lastCall.ret = Some([id |-> lastCall.id])

(* C19, the case: Client.create_database("a", fail_if_exists=True) on an *)
(* existing database raises the 409 after one call.                      *)
C19_ExistingRaisesConflict ==
    /\ GivenFailIfExists
    /\ lastCall.op = "Client.create_database"
    /\ lastCall.fail_if_exists
    /\ lastCall.existed
    /\ lastCall.failure = Some(AlreadyExists)
    /\ lastCall.untouched
    /\ TransportCalls(lastCall) = <<"CreateDatabase">>

-----------------------------------------------------------------------------
(* The container's default TTL *)

TtlCall ==
    /\ lastCall.op \in {"create_container", "set_container_properties"}
    /\ lastCall.fault = None

RaisedLocally(c) == c.treq = None /\ c.failure # None

(* C21: on create_container and set_container_properties, a call without *)
(* default_ttl reaches Transport with a payload that has no defaultTtl   *)
(* key, and a call with default_ttl = 0 reaches Transport with           *)
(* defaultTtl = 0 in the payload.                                        *)
C21_TtlUnsetAbsentZeroSent ==
    TtlCall =>
        /\ lastCall.args.default_ttl = None
              => /\ ~RaisedLocally(lastCall)
                 /\ "defaultTtl" \notin DOMAIN lastCall.treq[1].body[1]
        /\ lastCall.args.default_ttl = Some(PyInt(0))
              => /\ ~RaisedLocally(lastCall)
                 /\ "defaultTtl" \in DOMAIN lastCall.treq[1].body[1]
                 /\ lastCall.treq[1].body[1]["defaultTtl"] = PyInt(0)

(* C21, the case: create_container is given default_ttl = 0 and hands   *)
(* Transport a payload without defaultTtl.                               *)
C21_ZeroTtlDropped ==
    /\ TtlCall
    /\ lastCall.op = "create_container"
    /\ lastCall.args.default_ttl = Some(PyInt(0))
    /\ lastCall.treq # None
    /\ lastCall.treq[1].rpc = "CreateContainer"
    /\ DOMAIN lastCall.treq[1].body[1] = {"id"}

(* C22: a default_ttl that is not an integer (a float with a fraction, a *)
(* str that is no number) makes the call fail before Transport is        *)
(* called.                                                               *)
C22_NonIntegerTtlRejected ==
    (/\ TtlCall
     /\ lastCall.args.default_ttl # None
     /\ lastCall.args.default_ttl[1].type # "int")
    => RaisedLocally(lastCall)

(* C22, the case: set_container_properties is given 1.5 and replaces the *)
(* container with defaultTtl = 1.                                        *)
C22_FractionTruncatedAndSent ==
    /\ TtlCall
    /\ lastCall.op = "set_container_properties"
    /\ lastCall.args.default_ttl = Some(PyFloat(1))
    /\ lastCall.failure = None
    /\ lastCall.treq[1].body[1]["defaultTtl"] = PyInt(1)

-----------------------------------------------------------------------------
(* Threads sharing a client *)

(* C23: when the operations that were in flight together on one Container *)
(* have all returned, the session token stored is one of the tokens they   *)
(* read from response headers (if they read any), and it is not older than *)
(* the token stored before they started.                                   *)
C23_NoSessionUpdateLost ==
    AllDone =>
        /\ inflight.observed # {} => session_token \in inflight.observed
        /\ TokenNumber(session_token) >= TokenNumber(inflight.before)

(* C23, the case: two operations have returned, one of them stored the     *)
(* token of its response, and the token stored in the end is the one from  *)
(* before they started.                                                    *)
C23_StoredTokenOverwritten ==
    /\ AllDone
    /\ \A th \in Threads : inflight.thread[th].failure = None
    /\ inflight.observed # {}
    /\ session_token \notin inflight.observed
    /\ session_token = inflight.before

(* C27: an operation that returned hands its caller the headers of its own *)
(* response: the headers it read from the client were put there by its own *)
(* Transport call.                                                         *)
C27_OwnResponseHeaders ==
    \A th \in Threads :
        (inflight.thread[th].pc = "done" /\ inflight.thread[th].failure = None)
            => /\ inflight.thread[th].from = th
               /\ inflight.thread[th].ret_headers = inflight.thread[th].response

(* C27, the case: get_item returns an Item whose headers are those of the  *)
(* response to the other thread's ReadItem, with another session token.    *)
C27_OtherThreadsHeadersReturned ==
    \E th \in Threads :
        /\ inflight.thread[th].op = "get_item"
        /\ inflight.thread[th].pc = "done"
        /\ inflight.thread[th].failure = None
        /\ inflight.thread[th].from \in Threads \ {th}
        /\ inflight.thread[th].ret_headers # inflight.thread[th].response

-----------------------------------------------------------------------------
(* The states of a query *)

QueryTransitions ==
    {<<"Planning", "Fetching">>, <<"Fetching", "Draining">>,
     <<"Draining", "Fetching">>, <<"Draining", "Exhausted">>}
        \cup {<<from, "Failed">> : from \in {"Planning", "Fetching", "Draining"}}

(* C24: a query changes state only Planning -> Fetching -> Draining ->     *)
(* Exhausted, Draining -> Fetching, or from one of these three to Failed;  *)
(* in Exhausted and in Failed the state never changes and no item is       *)
(* yielded any more.                                                       *)
C24_QueryStateMachine ==
    [][Querying =>
          /\ executor' # None
          /\ executor'[1].state # executor[1].state
                => <<executor[1].state, executor'[1].state>> \in QueryTransitions
          /\ executor[1].state \in {"Exhausted", "Failed"}
                => /\ executor'[1].state = executor[1].state
                   /\ executor'[1].yielded = executor[1].yielded]_vars

(* C24, the case: a query went back from Draining to Fetching for the      *)
(* second page of a partition, was drained to the end, and next() was      *)
(* called again on the exhausted iterator.                                 *)
C24_RefetchedAndExhausted ==
    /\ Querying
    /\ executor[1].state = "Exhausted"
    /\ executor[1].fetched["p1"] = 2
    /\ Len(executor[1].yielded) = MaxKey
    /\ executor[1].stops = MaxStops

(* the call in flight for partition p resolves without a page *)
FetchFailed(p) ==
    /\ Querying
    /\ executor' # None
    /\ ~Dropped(executor[1])
    /\ executor[1].inflight[p]
    /\ ~executor'[1].inflight[p]
    /\ executor'[1].fetched[p] = executor[1].fetched[p]

C26_ReplansBounded ==
    [][Querying =>
          /\ executor' # None
          /\ executor'[1].replans <= MaxReplans
          /\ executor'[1].replans > executor[1].replans
                => /\ executor'[1].replans = executor[1].replans + 1
                   /\ executor'[1].state = executor[1].state
                   /\ executor'[1].yielded = executor[1].yielded
                   /\ executor'[1].fetched = executor[1].fetched
                   /\ executor'[1].error = None
          /\ \A p \in Partitions :
                (FetchFailed(p) /\ executor'[1].replans = executor[1].replans
                   /\ executor'[1].error = QueryFailed(p, StalePartitionMap))
                    => /\ executor[1].replans = MaxReplans
                       /\ executor'[1].state = "Failed"]_vars

(* C26, the case: the plan was fetched again MaxReplans times and the      *)
(* query was drained to the end all the same.                              *)
C26_ReplannedAndExhausted ==
    /\ Querying
    /\ executor[1].replans = MaxReplans
    /\ executor[1].state = "Exhausted"
    /\ Len(executor[1].yielded) = MaxKey

-----------------------------------------------------------------------------
(* Containers of the prototype Database *)

(* get_container was called on a database that exists and Transport      *)
(* answered without a failure of its own                                 *)
GotContainer ==
    /\ lastCall.op = "Database.get_container"
    /\ lastCall.failure \notin {Some(TransportFailure), Some(NotFound)}

(* C28: Database.get_container(id) returns a container whose id is the    *)
(* id asked for when the database holds such a container, and raises      *)
(* ValueError when it holds none, whatever else it holds.                 *)
C28_GetContainerById ==
    GotContainer =>
        IF TrimSlashes(Prototype_collection_link(PrototypeDatabase(TheDatabaseId),
                                                 lastCall.args.id)) \in DOMAIN server
        THEN lastCall.failure = None /\ lastCall.ret[1].id = lastCall.args.id
        ELSE lastCall.failure = Some("ValueError")

(* C28, the case: the database holds container "a" only and               *)
(* get_container("b") returns the Container of "a".                       *)
C28_OtherContainerReturned ==
    /\ GotContainer
    /\ lastCall.args.id = <<"b">>
    /\ S_dbs \o TheDatabaseId \o S_colls \o <<"b">> \notin DOMAIN server
    /\ lastCall.failure = None
    /\ lastCall.ret = Some(PrototypeContainer(PrototypeDatabase(TheDatabaseId), <<"a">>))

RawIdOps ==
    {"Database.delete_container", "Database.get_container_properties",
     "Database.set_container_properties"}

(* C29: delete_container, get_container_properties and                    *)
(* set_container_properties given the raw id of a container hand          *)
(* Transport the collection_link of the Container object built for the    *)
(* database and that id; Client.get_database and Client.delete_database   *)
(* hand Transport the database_link of the Database object of the id.     *)
C29_RawIdResolvesObjectLink ==
    /\ (lastCall.op \in RawIdOps /\ lastCall.args.given = "str" /\ lastCall.treq # None)
          => lastCall.treq[1].link
                 = Prototype_collection_link(PrototypeDatabase(TheDatabaseId),
                                             lastCall.args.id)
    /\ lastCall.op \in {"Client.get_database", "Client.delete_database"}
          => lastCall.treq[1].link = Prototype_database_link(lastCall.args.id)

(* C29, the case: container "a" exists, delete_container("a") asks        *)
(* Transport to delete /dbs/a/col/a and gets the 404, the container       *)
(* staying where it is.                                                   *)
C29_DeleteByIdMissesContainer ==
    /\ lastCall.op = "Database.delete_container"
    /\ lastCall.args.given = "str"
    /\ lastCall.args.id = <<"a">>
    /\ lastCall.treq[1].link = <<"/", "d", "b", "s", "/", "a", "/", "c", "o", "l", "/", "a">>
    /\ lastCall.failure = Some(NotFound)
    /\ TrimSlashes(Prototype_collection_link(PrototypeDatabase(TheDatabaseId), <<"a">>))
           \in DOMAIN server

-----------------------------------------------------------------------------
(* The forms of a reference *)

(* C30: get_database and delete_database resolve the id of a database,    *)
(* its properties dict and its Database object to the one link dbs/<id>;  *)
(* get_container and delete_container resolve the id of a container of    *)
(* the database, its properties dict and its Container object to the one  *)
(* link dbs/<id>/colls/<container id>.                                    *)
C30_SameLinkWhateverForm ==
    Resolved =>
        LET r == linkOut[1]
            database_link == S_dbs \o linkIn.database
        IN /\ r.first.database = database_link
           /\ CosmosClient_get_database_link(r.owner) = database_link
                 => r.first.container = database_link \o S_colls \o linkIn.container

(* C30, the case: database "aa" is named by the properties dict a listing *)
(* returned and its container "a" by the Container object built from the  *)
(* Database object.                                                       *)
C30_DictAndObjectResolved ==
    /\ Resolved
    /\ linkIn.database = <<"a", "a">>
    /\ linkIn.container = <<"a">>
    /\ linkOut[1].database = PropertiesRef(<<"a", "a">>, S_dbs \o <<"a", "a", "/">>)
    /\ linkOut[1].container.kind = "Container"
    /\ linkOut[1].owner.kind = "Database"
    /\ linkOut[1].first.database = S_dbs \o <<"a", "a">>
    /\ linkOut[1].first.container = S_dbs \o <<"a", "a">> \o S_colls \o <<"a">>

====
